---------------------------- MODULE Spec2Model ----------------------------
(***************************************************************************)
(* A model of annal's concurrency substrate and memory store:              *)
(*   - StorePool (src/src/annal/pool.py): get_store, reconcile_project,     *)
(*     reconcile_project_async and its worker _run, is_indexing;            *)
(*   - EventBus (src/src/annal/events.py): subscribe, unsubscribe, push;    *)
(*   - MemoryStore (src/src/annal/store.py) and store_memory                *)
(*     (src/src/annal/server.py).                                           *)
(* Each subsystem has its own specification over the shared variables; the *)
(* variables of the other subsystems stay at their initial values.         *)
(***************************************************************************)
EXTENDS Integers, Sequences, FiniteSets, TLC

(***************************************************************************)
(* Bounds of the model.                                                    *)
(***************************************************************************)
\* Threads that call the pool's public methods.
NCallers == 2
\* Background threads reconcile_project_async may create.
MaxWorkers == 2
\* Of the callers, those that request and probe background runs in FairSpecRun.
NRunCallers == 1
\* EventBus(history_size): 50 in the source, scaled down.
HistorySize == 2
\* queue.Queue(maxsize=256) in subscribe(), scaled down.
QueueMaxsize == 2
\* Queue objects subscribe() may create.
MaxSubscribers == 2
\* Mutating MemoryStore calls (store, delete) in one run.
MaxMutations == 3
\* store.py FUZZY_TAG_THRESHOLD = 0.72, in hundredths.
FUZZY_TAG_THRESHOLD == 72
\* store_memory's duplicate check: search(limit=10), server.py:220.
DEDUP_SEARCH_LIMIT == 10
\* store_memory skips on score > 0.95 (server.py:224), in hundredths.
DEDUP_THRESHOLD == 95
\* Items in one store_batch call.
MaxBatch == 3
\* limit of one scroll of the Qdrant backend: 100 in qdrant.py:204, scaled down.
QdrantScrollLimit == 2
\* Hits counted on one memory.
MaxHits == 2
\* Calendar days, and the last second of a day (23:59:59 in store.py:26).
MaxDay == 2
LastSecond == 2
\* batch_size of the backend's full scans: 5000 in chromadb.py:127, scaled down.
ScanBatchSize == 2
\* Modification times a watched file goes through: created and rewritten
\* once.
MaxMtime == 2
\* Components of a relative path: a file in a directory in a directory.
MaxDepth == 3
\* The largest limit a query is given: far above any collection here, as in
\* test_query_large_limit_with_post_filter_caps_overfetch.
BigLimit == 1000
\* Events pushed in the EventBus specification: enough to fill a queue and
\* to push once more.
MaxPushes == QueueMaxsize + 1

NoThread == <<"none", 0>>
NoStore == 0

Callers == {<<"caller", i>> : i \in 1..NCallers}
Workers == {<<"worker", i>> : i \in 1..MaxWorkers}
Threads == Callers \cup Workers
RunCallers == {<<"caller", i>> : i \in 1..NRunCallers} \cap Callers

\* Project names; "a" is in the config file at start, "b" is unknown.
Projects == {"a", "b"}
ConfiguredAtStart == {"a"}

VARIABLES
    th,     \* per thread: its position and the locals of the method it runs
    pool,   \* the StorePool object's fields (pool.py:22-31)
    bus,    \* the EventBus object's fields (events.py:31-34)
    ms      \* one project's MemoryStore and its backend collection

vars == <<th, pool, bus, ms>>

(***************************************************************************)
(* EventBus: pure parts.                                                   *)
(***************************************************************************)
Event(type, proj, detail) == [type |-> type, project |-> proj, detail |-> detail]

\* deque(maxlen=HistorySize).append: the oldest entry falls out when full.
history_append(h, e) ==
    IF Len(h) < HistorySize THEN Append(h, e)
    ELSE Append(SubSeq(h, 2, Len(h)), e)

\* list(self._queues): the set of its members
Range(f) == {f[i] : i \in DOMAIN f}

NoEvent == Event("", "", "")

\* Number of occurrences of e in the sequence s.
Count(e, s) == Cardinality({i \in DOMAIN s : s[i] = e})

put_nowait_early_full(qc, e) ==
    IF Len(qc) + 1 < QueueMaxsize THEN Append(qc, e) ELSE qc
\* Queue.put_nowait(e) inside `try ... except queue.Full` (events.py:57-60):
\* the content of the queue afterwards
put_nowait(qc, e) ==
    IF Len(qc) < QueueMaxsize THEN Append(qc, e) ELSE qc

\* list.remove(q): the first occurrence goes; ValueError (absent) is passed over
list_remove(l, x) ==
    IF x \notin Range(l) THEN l
    ELSE LET i == CHOOSE j \in DOMAIN l : l[j] = x /\ \A k \in 1..(j-1) : l[k] # x
         IN SubSeq(l, 1, i - 1) \o SubSeq(l, i + 1, Len(l))

InitBus ==
    bus = [queues |-> <<>>,     \* _queues: the subscribed Queue objects, by id
           q |-> <<>>,          \* the content of each Queue object created so far
           lock |-> NoThread,   \* _lock
           history |-> <<>>,    \* _history
           \* history variables: every event pushed, in the order of the appends,
           \* with the snapshot its push took, and every put_nowait call
           log |-> <<>>,
           snaps |-> <<>>,
           puts |-> {}]

(***************************************************************************)
(* StorePool.                                                              *)
(***************************************************************************)
\* A thread that runs nothing: the locals are at their defaults.
\*   pc       position in the method
\*   op       the public method (or "run": the worker's _run) being executed
\*   project  its project argument
\*   need_save, store   get_store's locals
\*   child    reconcile_project_async's `thread`
\*   exc      the exception _run caught ("" when none)
\*   result   is_indexing's return value
\*   running  history: whether a reconciliation was in progress at the probe
\*   pushes   history: index_failed events this thread pushed
\*   snapshot, event   EventBus.push's locals: the queues left to serve, the event
\*   arg, tmp, ret     a MemoryStore method's arguments, local value and result
Fresh(label) ==
    [pc |-> label, op |-> "none", project |-> "a", need_save |-> FALSE,
     store |-> NoStore, child |-> NoThread, exc |-> "", result |-> FALSE,
     running |-> FALSE, pushes |-> 0, snapshot |-> <<>>, event |-> NoEvent,
     arg |-> <<>>, tmp |-> <<>>, ret |-> <<>>]

InitPool ==
    /\ th = [t \in Threads |-> IF t \in Callers THEN Fresh("idle") ELSE Fresh("unborn")]
    /\ pool = [stores |-> [p \in Projects |-> NoStore],
               lock |-> NoThread,
               index_locks |-> {},
               index_lock_owner |-> [p \in Projects |-> NoThread],
               index_started |-> {},
               last_reconcile |-> {},
               reconcile_threads |-> <<>>,
               config_projects |-> ConfiguredAtStart,
               \* _watchers: per project the FileWatcher it holds (an index of
               \* `observers`, 0 for no entry); every FileWatcher started so
               \* far, with the project and whether its observer still runs
               watchers |-> [p \in Projects |-> 0],
               observers |-> <<>>,
               \* history: backends created, instances get_store returned
               created |-> [p \in Projects |-> 0],
               returned |-> [p \in Projects |-> {}]]

\* The paths that rglob("*") yields under the watch path when they exist.
WatchedPaths == {"f", "g"}

\* A path's state: no such file, a file that cannot be read ("locked"), or a
\* file with its text ("" is blank) and its modification time.
NoFile == [kind |-> "absent", text |-> "", mtime |-> 0]
NeverSeen == [kind |-> "never", text |-> "", mtime |-> 0]

\* MemoryStore.__init__, store.py:29-34, over an empty collection
InitStore ==
    ms = [mem |-> <<>>,          \* the backend collection, in insertion order
          next_id |-> 1,         \* the next uuid4 (ids are never reused)
          tag_cache |-> [built |-> FALSE, map |-> <<>>],   \* _tag_cache
          now |-> [day |-> 1, sec |-> 0, micro |-> 0],     \* the UTC clock
          \* history variables: mutating calls begun and returned
          started |-> 0, finished |-> 0,
          \* the files under the project's watch path, and (history) the
          \* files as they were when reconcile() last returned
          files |-> [p \in WatchedPaths |-> NoFile],
          seen |-> [p \in WatchedPaths |-> NeverSeen]]

Init == InitPool /\ InitBus /\ InitStore

PoolLockFreeBroken == TRUE
\* threading.Lock: `with self._lock` enters only when nobody holds the lock.
PoolLockFree == pool.lock = NoThread

\* Thread.is_alive(): started and not yet finished.
is_alive(w) == th[w].pc \notin {"unborn", "created", "done"}

\* Where a thread continues after the get_store() call it made.
AfterGetStore(t) ==
    CASE th[t].op = "get_store" -> "idle"
      [] th[t].op = "reconcile_project" -> "sync_reconcile"
      [] th[t].op = "run" -> "run_reconcile"

\* Where a thread continues after _get_index_lock().
AfterGetIndexLock(t) == IF th[t].op = "run" THEN "run_try" ELSE "ii_try"

Goto(t, label) == th' = [th EXCEPT ![t].pc = label]
\* A public method returns to its caller: the thread is idle again.
Return(t) == th' = [th EXCEPT ![t] = Fresh("idle")]

------------------------------------------------------------------------------
\* get_store(project), pool.py:66-82

call_get_store(t, p) ==
    /\ th[t].pc = "idle"
    /\ th' = [th EXCEPT ![t].pc = "gs_acquire", ![t].op = "get_store",
                        ![t].project = p]
    /\ UNCHANGED <<pool, bus>>

\* `with self._lock:` (line 69)
get_store_acquire(t) ==
    /\ th[t].pc = "gs_acquire"
    /\ PoolLockFree
    /\ pool' = [pool EXCEPT !.lock = t]
    /\ Goto(t, "gs_check")
    /\ UNCHANGED bus

\* `if project not in self._stores:` (line 70)
get_store_check(t) ==
    /\ th[t].pc = "gs_check"
    /\ Goto(t, IF pool.stores[th[t].project] = NoStore THEN "gs_create" ELSE "gs_return")
    /\ UNCHANGED <<pool, bus>>

\* lines 71-78: create the backend and the store, register an unknown project
get_store_create(t) ==
    LET p == th[t].project IN
    /\ th[t].pc = "gs_create"
    /\ pool' = [pool EXCEPT !.created[p] = @ + 1,
                            !.stores[p] = pool.created[p] + 1,
                            !.config_projects = @ \cup {p}]
    /\ th' = [th EXCEPT ![t].pc = "gs_return",
                        ![t].need_save = p \notin pool.config_projects]
    /\ UNCHANGED bus

\* line 79 and the end of the with-block: read the cached store, release the lock
get_store_return(t) ==
    LET p == th[t].project IN
    /\ th[t].pc = "gs_return"
    /\ pool' = [pool EXCEPT !.lock = NoThread,
                            !.returned[p] = @ \cup {pool.stores[p]}]
    /\ th' = [th EXCEPT ![t].store = pool.stores[p], ![t].pc = "gs_save"]
    /\ UNCHANGED bus

\* lines 80-82: `if need_save: self._config.save()` outside the lock; `return store`
get_store_save(t) ==
    /\ th[t].pc = "gs_save"
    /\ IF AfterGetStore(t) = "idle"
       THEN Return(t)
       ELSE th' = [th EXCEPT ![t].pc = AfterGetStore(t), ![t].need_save = FALSE]
    /\ UNCHANGED <<pool, bus>>

------------------------------------------------------------------------------
\* _get_index_lock(project), pool.py:33-38: one short critical section

get_index_lock(t) ==
    /\ th[t].pc = "get_lock"
    /\ PoolLockFree
    /\ pool' = [pool EXCEPT !.index_locks = @ \cup {th[t].project}]
    /\ Goto(t, AfterGetIndexLock(t))
    /\ UNCHANGED bus

------------------------------------------------------------------------------
\* is_indexing(project), pool.py:150-157

\* A reconciliation of p is in progress: a worker holds p's index lock, or a
\* thread is inside the synchronous reconcile_project(p).
RunInProgress(p) ==
    \/ pool.index_lock_owner[p] \in Workers
    \/ \E t \in Threads : th[t].pc = "sync_reconcile" /\ th[t].project = p

call_is_indexing(t, p) ==
    /\ th[t].pc = "idle"
    /\ th' = [th EXCEPT ![t].pc = "get_lock", ![t].op = "is_indexing",
                        ![t].project = p]
    /\ UNCHANGED <<pool, bus>>

\* `acquired = lock.acquire(blocking=False)` (line 153); `return True` (line 157)
is_indexing_try(t) ==
    LET p == th[t].project IN
    /\ th[t].pc = "ii_try"
    /\ IF pool.index_lock_owner[p] = NoThread
       THEN /\ pool' = [pool EXCEPT !.index_lock_owner[p] = t]
            /\ th' = [th EXCEPT ![t].pc = "ii_release",
                                ![t].running = RunInProgress(p)]
       ELSE /\ th' = [th EXCEPT ![t].pc = "ii_return", ![t].result = TRUE,
                                ![t].running = RunInProgress(p)]
            /\ UNCHANGED pool
    /\ UNCHANGED bus

\* `lock.release(); return False` (lines 155-156)
is_indexing_release(t) ==
    /\ th[t].pc = "ii_release"
    /\ pool' = [pool EXCEPT !.index_lock_owner[th[t].project] = NoThread]
    /\ th' = [th EXCEPT ![t].pc = "ii_return", ![t].result = FALSE]
    /\ UNCHANGED bus

\* the caller has the result in hand
is_indexing_return(t) ==
    /\ th[t].pc = "ii_return"
    /\ Return(t)
    /\ UNCHANGED <<pool, bus>>

------------------------------------------------------------------------------
\* reconcile_project(project), pool.py:84-98 (synchronous, takes no index lock)

\* lines 86-88: an unconfigured project returns 0 at once
call_reconcile_project(t, p) ==
    /\ th[t].pc = "idle"
    /\ IF p \in pool.config_projects
       THEN th' = [th EXCEPT ![t].pc = "gs_acquire", ![t].op = "reconcile_project",
                             ![t].project = p]
       ELSE UNCHANGED th
    /\ UNCHANGED <<pool, bus>>

\* lines 89-91: watcher.reconcile() returns its count
reconcile_project_reconcile(t) ==
    /\ th[t].pc = "sync_reconcile"
    /\ Goto(t, "sync_set_last")
    /\ UNCHANGED <<pool, bus>>

\* lines 89-91: watcher.reconcile() raises to the caller
reconcile_project_raise(t) ==
    /\ th[t].pc = "sync_reconcile"
    /\ Return(t)
    /\ UNCHANGED <<pool, bus>>

\* lines 92-98
reconcile_project_set_last(t) ==
    /\ th[t].pc = "sync_set_last"
    /\ PoolLockFree
    /\ pool' = [pool EXCEPT !.last_reconcile = @ \cup {th[t].project}]
    /\ Return(t)
    /\ UNCHANGED bus

------------------------------------------------------------------------------
\* reconcile_project_async(project, on_progress, on_complete, clear_first),
\* pool.py:100-148

Unborn == {w \in Workers : th[w].pc = "unborn"}
\* the Thread object the call creates: the next unused worker
NextWorker == CHOOSE w \in Unborn : \A v \in Unborn : w[2] <= v[2]

\* lines 145-147: create the thread and append it to _reconcile_threads
reconcile_project_async_append(t, p) ==
    /\ th[t].pc = "idle"
    /\ Unborn # {}
    /\ PoolLockFree
    /\ LET w == NextWorker IN
        /\ th' = [th EXCEPT ![t].pc = "ra_start",
                            ![t].op = "reconcile_project_async",
                            ![t].project = p, ![t].child = w,
                            ![w].pc = "created", ![w].op = "run", ![w].project = p]
        /\ pool' = [pool EXCEPT !.reconcile_threads = Append(@, w)]
    /\ UNCHANGED bus

\* line 148: thread.start()
reconcile_project_async_start(t) ==
    /\ th[t].pc = "ra_start"
    /\ th' = [th EXCEPT ![t] = Fresh("idle"), ![th[t].child].pc = "get_lock"]
    /\ UNCHANGED <<pool, bus>>

\* ---- _run, pool.py:108-143

run_give_up(w) == Goto(w, "done")
\* lines 110-112: a failed try-acquire logs and goes on to the blocking acquire
run_wait(w) == Goto(w, "run_wait")

\* line 110: `if not lock.acquire(blocking=False):`
run_try_acquire(w) ==
    LET p == th[w].project IN
    /\ th[w].pc = "run_try"
    /\ IF pool.index_lock_owner[p] = NoThread
       THEN /\ pool' = [pool EXCEPT !.index_lock_owner[p] = w]
            /\ Goto(w, "run_set_started")
       ELSE /\ run_wait(w)
            /\ UNCHANGED pool
    /\ UNCHANGED bus

\* line 112: `lock.acquire()` blocks until the lock is free
run_wait_acquire(w) ==
    LET p == th[w].project IN
    /\ th[w].pc = "run_wait"
    /\ pool.index_lock_owner[p] = NoThread
    /\ pool' = [pool EXCEPT !.index_lock_owner[p] = w]
    /\ Goto(w, "run_set_started")
    /\ UNCHANGED bus

\* lines 114-115
run_set_started(w) ==
    /\ th[w].pc = "run_set_started"
    /\ PoolLockFree
    /\ pool' = [pool EXCEPT !.index_started = @ \cup {th[w].project}]
    /\ Goto(w, "run_check")
    /\ UNCHANGED bus

\* lines 116-118: `return` for an unconfigured project (the finally still runs),
\* else call get_store
run_check_config(w) ==
    /\ th[w].pc = "run_check"
    /\ Goto(w, IF th[w].project \in pool.config_projects
               THEN "gs_acquire" ELSE "run_finally")
    /\ UNCHANGED <<pool, bus>>

\* lines 119-123: [delete_by_source("file:") and] watcher.reconcile() return a
\* count; what they do to the store's records is the MemoryStore model's part
run_reconcile(w) ==
    /\ th[w].pc = "run_reconcile"
    /\ Goto(w, "run_set_last")
    /\ UNCHANGED <<pool, bus>>

\* lines 119-123: ... or raise
run_reconcile_raise(w) ==
    /\ th[w].pc = "run_reconcile"
    /\ th' = [th EXCEPT ![w].pc = "run_except", ![w].exc = "boom"]
    /\ UNCHANGED <<pool, bus>>

\* lines 124-129
run_set_last(w) ==
    /\ th[w].pc = "run_set_last"
    /\ PoolLockFree
    /\ pool' = [pool EXCEPT !.last_reconcile = @ \cup {th[w].project}]
    /\ Goto(w, "run_on_complete")
    /\ UNCHANGED bus

\* lines 130-131: no callback, or the caller's callback returns
run_on_complete(w) ==
    /\ th[w].pc = "run_on_complete"
    /\ Goto(w, "run_finally")
    /\ UNCHANGED <<pool, bus>>

\* lines 130-131: the caller's callback raises
run_on_complete_raise(w) ==
    /\ th[w].pc = "run_on_complete"
    /\ th' = [th EXCEPT ![w].pc = "run_except", ![w].exc = "callback"]
    /\ UNCHANGED <<pool, bus>>

\* EventBus.push(e), events.py:51-60, run with no subscriber: the loop over
\* the snapshot is empty
push_no_subscriber(b, e) ==
    [b EXCEPT !.history = history_append(@, e), !.log = Append(@, e),
              !.snaps = Append(@, {})]

\* lines 132-136: `except Exception as exc:` event_bus.push(Event("index_failed", ...))
run_except(w) ==
    LET e == Event("index_failed", th[w].project, th[w].exc) IN
    /\ th[w].pc = "run_except"
    /\ bus.lock = NoThread
    /\ bus' = push_no_subscriber(bus, e)
    /\ th' = [th EXCEPT ![w].pc = "run_finally",
                        ![w].pushes = @ + Len(bus'.log) - Len(bus.log)]
    /\ UNCHANGED pool

\* lines 138-142: pop the start time, drop the threads that are not alive
run_finally(w) ==
    /\ th[w].pc = "run_finally"
    /\ PoolLockFree
    /\ pool' = [pool EXCEPT !.index_started = @ \ {th[w].project},
                            !.reconcile_threads = SelectSeq(@, is_alive)]
    /\ Goto(w, "run_release")
    /\ UNCHANGED bus

run_lock_release_on_success(w) ==
    IF th[w].exc = "" THEN NoThread ELSE w
\* line 143: lock.release(), inside the finally: whatever happened
run_lock_release(w) == NoThread

\* line 143, and the thread ends
run_release(w) ==
    /\ th[w].pc = "run_release"
    /\ pool' = [pool EXCEPT !.index_lock_owner[th[w].project] = run_lock_release(w)]
    /\ Goto(w, "done")
    /\ UNCHANGED bus

(***************************************************************************)
(* EventBus, events.py:24-67.                                              *)
(***************************************************************************)

\* subscribe(), lines 36-41: a new Queue object joins _queues
subscribe ==
    /\ bus.lock = NoThread
    /\ Len(bus.q) < MaxSubscribers
    /\ bus' = [bus EXCEPT !.q = Append(@, <<>>),
                          !.queues = Append(@, Len(bus.q) + 1)]
    /\ UNCHANGED <<th, pool>>

\* unsubscribe(q), lines 43-49
unsubscribe(qid) ==
    /\ bus.lock = NoThread
    /\ qid \in DOMAIN bus.q
    /\ bus' = [bus EXCEPT !.queues = list_remove(@, qid)]
    /\ UNCHANGED <<th, pool>>

\* the subscriber takes the oldest event off its queue (Queue.get)
queue_get(qid) ==
    /\ qid \in DOMAIN bus.q
    /\ bus.q[qid] # <<>>
    /\ bus' = [bus EXCEPT !.q[qid] = Tail(@)]
    /\ UNCHANGED <<th, pool>>

\* push(event), lines 53-55: under the lock, snapshot the queues and append
\* the event to the history
push_locked(t) ==
    LET e == Event("memory_stored", "a", ToString(Len(bus.log) + 1)) IN
    /\ th[t].pc = "idle"
    /\ Len(bus.log) < MaxPushes
    /\ bus.lock = NoThread
    /\ bus' = [bus EXCEPT !.lock = t,
                          !.history = history_append(@, e),
                          !.log = Append(@, e),
                          !.snaps = Append(@, Range(bus.queues))]
    /\ th' = [th EXCEPT ![t].pc = "push_unlock", ![t].op = "push",
                        ![t].snapshot = bus.queues, ![t].event = e]
    /\ UNCHANGED pool

\* the end of the with-block (line 55): the lock is released
push_unlock(t) ==
    /\ th[t].pc = "push_unlock"
    /\ bus' = [bus EXCEPT !.lock = NoThread]
    /\ Goto(t, "push_put")
    /\ UNCHANGED pool

\* lines 56-60: one round of `for q in snapshot: q.put_nowait(event)`
push_put(t) ==
    /\ th[t].pc = "push_put"
    /\ th[t].snapshot # <<>>
    /\ LET qid == Head(th[t].snapshot)
           after == put_nowait(bus.q[qid], th[t].event)
       IN bus' = [bus EXCEPT
                    !.q[qid] = after,
                    !.puts = @ \cup {[q |-> qid, e |-> th[t].event,
                                      before |-> Len(bus.q[qid]),
                                      added |-> Count(th[t].event, after)
                                                - Count(th[t].event, bus.q[qid]),
                                      n |-> Cardinality({a \in bus.puts :
                                              a.q = qid /\ a.e = th[t].event}) + 1]}]
    /\ th' = [th EXCEPT ![t].snapshot = Tail(@)]
    /\ UNCHANGED pool

\* the loop is over: push returns
push_return(t) ==
    /\ th[t].pc = "push_put"
    /\ th[t].snapshot = <<>>
    /\ Return(t)
    /\ UNCHANGED <<pool, bus>>

NextBus ==
    /\ UNCHANGED ms
    /\ \/ subscribe
       \/ \E qid \in 1..MaxSubscribers : unsubscribe(qid)
       \/ \E qid \in 1..MaxSubscribers : queue_get(qid)
       \/ \E t \in Callers : push_locked(t)
       \/ \E t \in Callers : push_unlock(t)
       \/ \E t \in Callers : push_put(t)
       \/ \E t \in Callers : push_return(t)

SpecBus == Init /\ [][NextBus]_vars

------------------------------------------------------------------------------
CallerStep(t) ==
    \/ \E p \in Projects : call_is_indexing(t, p)
    \/ \E p \in Projects : call_reconcile_project(t, p)
    \/ \E p \in Projects : reconcile_project_async_append(t, p)
    \/ reconcile_project_async_start(t)
    \/ is_indexing_try(t)
    \/ is_indexing_release(t)
    \/ is_indexing_return(t)
    \/ reconcile_project_reconcile(t)
    \/ reconcile_project_raise(t)
    \/ reconcile_project_set_last(t)

WorkerStep(w) ==
    \/ run_try_acquire(w)
    \/ run_wait_acquire(w)
    \/ run_set_started(w)
    \/ run_check_config(w)
    \/ run_reconcile(w)
    \/ run_reconcile_raise(w)
    \/ run_set_last(w)
    \/ run_on_complete(w)
    \/ run_on_complete_raise(w)
    \/ run_except(w)
    \/ run_finally(w)
    \/ run_release(w)

GetStoreStep(t) ==
    \/ get_store_acquire(t)
    \/ get_store_check(t)
    \/ get_store_create(t)
    \/ get_store_return(t)
    \/ get_store_save(t)

\* Threads calling get_store only.
NextGetStore ==
    /\ UNCHANGED ms
    /\ \/ \E t \in Callers, p \in Projects : call_get_store(t, p)
       \/ \E t \in Callers : GetStoreStep(t)

SpecGetStore == Init /\ [][NextGetStore]_vars

\* Reconciliation: the synchronous and the background runs, and is_indexing.
NextPool ==
    /\ UNCHANGED ms
    /\ \/ \E t \in Callers : CallerStep(t)
       \/ \E w \in Workers : WorkerStep(w)
       \/ \E t \in Threads : GetStoreStep(t)
       \/ \E t \in Threads : get_index_lock(t)

SpecPool == Init /\ [][NextPool]_vars

\* Background runs of the configured projects only: callers request runs and
\* probe is_indexing.
NextRun ==
    /\ UNCHANGED ms
    /\ \/ \E t \in RunCallers, p \in ConfiguredAtStart : reconcile_project_async_append(t, p)
       \/ \E t \in RunCallers : reconcile_project_async_start(t)
       \/ \E t \in RunCallers, p \in ConfiguredAtStart : call_is_indexing(t, p)
       \/ \E t \in RunCallers : is_indexing_try(t) \/ is_indexing_release(t)
                                  \/ is_indexing_return(t)
       \/ \E w \in Workers : WorkerStep(w)
       \/ \E w \in Workers : GetStoreStep(w)
       \/ \E t \in Threads : get_index_lock(t)

\* Fair scheduling: a call that has begun goes on (nobody is obliged to begin
\* one), and a thread that is again and again able to take a lock gets it.
SpecRun == Init /\ [][NextRun]_vars

ThreadStep(t) ==
    /\ UNCHANGED ms
    /\ \/ reconcile_project_async_start(t)
       \/ is_indexing_try(t) \/ is_indexing_release(t) \/ is_indexing_return(t)
       \/ WorkerStep(t)
       \/ GetStoreStep(t)
       \/ get_index_lock(t)

FairSpecRun ==
    /\ Init
    /\ [][NextRun]_vars
    /\ \A t \in Threads : SF_vars(ThreadStep(t))

(***************************************************************************)
(* MemoryStore (store.py) over the ChromaDB backend (backends/chromadb.py): *)
(* pure parts.                                                             *)
(***************************************************************************)
\* No memory id: an absent `supersedes` argument or `superseded_by` key.
NoId == 0

\* OnnxEmbedder.embed (embedder.py:18-19), an external model: a text's
\* embedding is a point, and the cosine distance of two embeddings is the
\* gap between the points, in hundredths.  "c2" is a near-duplicate of "c"
\* that scores exactly 0.95 against it; the tag "login" scores exactly 0.72
\* against the tag "auth" and 0.68 against "billing".
Embedding ==
    ("c" :> 0) @@ ("c2" :> 5) @@ ("d" :> 60) @@
    ("auth" :> 0) @@ ("login" :> 28) @@ ("billing" :> 60) @@ ("indexed" :> 95)
embed(text) == Embedding[text]
distance(u, v) == IF u >= v THEN u - v ELSE v - u

Contents == {"c", "c2", "d"}
TagLists == {<<"auth">>, <<"auth", "billing">>}

Min(a, b) == IF a <= b THEN a ELSE b

insert_lost(mem, rec) == mem
\* ChromaBackend.insert, chromadb.py:22-26
insert(mem, rec) == Append(mem, rec)
\* ChromaBackend.delete, chromadb.py:47-49
delete(mem, ids) == SelectSeq(mem, LAMBDA r : r.id \notin ids)
\* ChromaBackend.count() without a where clause, chromadb.py:150-152
count(mem) == Len(mem)
\* ChromaBackend.get, chromadb.py:86-92
get(mem, ids) == SelectSeq(mem, LAMBDA r : r.id \in ids)

(***************************************************************************)
(* Timestamps.  A string is the sequence of its character codes.  The      *)
(* calendar is scaled down: a date is one digit, a time of day is one      *)
(* digit from 0 (00:00:00) to LastSecond (23:59:59), a fraction of a       *)
(* second is one digit, and the UTC offset "+00:00" is its first character.*)
(***************************************************************************)
Digit(n) == 48 + n
CharT == 84
CharDot == 46
CharPlus == 43

\* Python's str < str: the first differing character decides, a proper
\* prefix is smaller
RECURSIVE str_less(_, _)
str_less(a, b) ==
    IF b = <<>> THEN FALSE
    ELSE IF a = <<>> THEN TRUE
    ELSE IF a[1] # b[1] THEN a[1] < b[1]
    ELSE str_less(Tail(a), Tail(b))

isoformat_date_only(now) == <<Digit(now.day)>>
\* datetime.now(timezone.utc).isoformat(), store.py:124: the fraction is
\* written only when the microseconds are not zero
isoformat(now) ==
    <<Digit(now.day), CharT, Digit(now.sec)>>
        \o (IF now.micro = 0 THEN <<>> ELSE <<CharDot, Digit(now.micro)>>)
        \o <<CharPlus>>

\* No $gt and no $lt on created_at.
NoBounds == [gt |-> <<>>, lt |-> <<>>]

\* No filter at all: `where or None` is None (store.py:107).
NoWhere ==
    [chunk_type |-> "", tags |-> {}, not_superseded |-> FALSE,
     created_at |-> NoBounds]

\* MemoryStore._build_where, store.py:84-107, for chunk_type and the
\* (expanded) tags
build_where(chunk_type, expanded) ==
    [chunk_type |-> chunk_type, tags |-> expanded, not_superseded |-> FALSE,
     created_at |-> NoBounds]

\* The clause `superseded_by $not_exists`, added unless include_superseded.
exclude_superseded(where, include_superseded) ==
    [where EXCEPT !.not_superseded = ~include_superseded]

split_where_equality_only(where) ==
    [native |-> [chunk_type |-> where.chunk_type],
     post |-> [tags |-> {}, not_superseded |-> FALSE, created_at |-> NoBounds]]
\* ChromaBackend._split_where, chromadb.py:197-219: equality goes to the
\* collection, operator clauses are applied after the fetch
split_where(where) ==
    [native |-> [chunk_type |-> where.chunk_type],
     post |-> [tags |-> where.tags, not_superseded |-> where.not_superseded,
               created_at |-> where.created_at]]

\* `if not post_filters`: the dict of operator clauses is empty
no_post_filters(post) ==
    post.tags = {} /\ ~post.not_superseded /\ post.created_at = NoBounds

\* the collection's own equality filter (where=chroma_where)
native_match(r, native) ==
    native.chunk_type = "" \/ r.chunk_type = native.chunk_type

\* The $not_exists operator: the key is absent from the metadata.
passes_not_exists(meta, post) ==
    post.not_superseded => meta.superseded_by = NoId

\* chromadb.py:243-245: `$lt` fails when value >= bound, as strings
passes_lt(value, bound) == bound # <<>> => str_less(value, bound)

\* chromadb.py:239-241: `$gt` fails when value <= bound, as strings
passes_gt(value, bound) == bound # <<>> => str_less(bound, value)

\* ChromaBackend._passes_post_filters, chromadb.py:221-247
passes_post_filters(meta, post) ==
    /\ post.tags # {} => \E i \in DOMAIN meta.tags : meta.tags[i] \in post.tags
    /\ passes_not_exists(meta, post)
    /\ passes_gt(meta.created_at, post.created_at.gt)
    /\ passes_lt(meta.created_at, post.created_at.lt)

Slice_one_more(l, offset, limit) ==
    SubSeq(l, offset + 1, Min(offset + limit + 1, Len(l)))
\* list[offset:offset + limit]
Slice(l, offset, limit) == SubSeq(l, offset + 1, Min(offset + limit, Len(l)))

batch_offsets_but_last(total_docs) ==
    {k * ScanBatchSize : k \in 0..(((total_docs - 1) \div ScanBatchSize) - 1)}
\* range(0, total_docs, batch_size), chromadb.py:130 (total_docs > 0)
batch_offsets(total_docs) ==
    {k * ScanBatchSize : k \in 0..((total_docs - 1) \div ScanBatchSize)}

\* chromadb.py:130-144: the batches of the records that pass the native
\* filter, fetched at each batch offset and post-filtered, one after another
RECURSIVE scan_batches(_, _, _)
scan_batches(matching, offsets, post) ==
    IF offsets = {} THEN <<>>
    ELSE LET batch_offset == CHOOSE o \in offsets : \A p \in offsets : o <= p
             batch == Slice(matching, batch_offset, ScanBatchSize)
         IN SelectSeq(batch, LAMBDA r : passes_post_filters(r, post))
                \o scan_batches(matching, offsets \ {batch_offset}, post)

\* ChromaBackend.scan, chromadb.py:94-148: <<page, total>>
scan(mem, offset, limit, where) ==
    LET sw == split_where(where)
        matching == SelectSeq(mem, LAMBDA r : native_match(r, sw.native))
        all_items == scan_batches(matching, batch_offsets(count(mem)), sw.post)
    IN IF count(mem) = 0 THEN << <<>>, 0 >>
       ELSE IF no_post_filters(sw.post)
            THEN << Slice(matching, offset, limit), Len(matching) >>
            ELSE << Slice(all_items, offset, limit), Len(all_items) >>

\* The k records of S nearest to emb; which of several records at the same
\* distance are taken is up to the index.
NearestSets(S, emb, k) ==
    {N \in SUBSET S :
        /\ Cardinality(N) = Min(k, Cardinality(S))
        /\ \A a \in N, b \in S \ N :
              distance(emb, embed(a.text)) <= distance(emb, embed(b.text))}

\* The orders in which the index may return the records N: nearest first.
RECURSIVE Orders(_, _)
Orders(N, emb) ==
    IF N = {} THEN {<<>>}
    ELSE UNION {{<<r>> \o rest : rest \in Orders(N \ {r}, emb)} :
                r \in {a \in N : \A b \in N :
                        distance(emb, embed(a.text)) <= distance(emb, embed(b.text))}}

\* `min(n, total) or 1`, chromadb.py:64
n_results(n, total) == IF Min(n, total) = 0 THEN 1 ELSE Min(n, total)

\* ChromaBackend.query, chromadb.py:51-84: the result lists the collection
\* may give, each record with its distance
query(mem, emb, limit, where) ==
    LET sw == split_where(where)
        n == IF no_post_filters(sw.post) THEN limit ELSE limit * 3
        matching == {mem[i] : i \in {j \in DOMAIN mem : native_match(mem[j], sw.native)}}
        out(fetched) == SelectSeq(fetched,
                                  LAMBDA r : passes_post_filters(r, sw.post))
    IN IF count(mem) = 0 THEN {<<>>}
       ELSE {Slice(out(fetched), 0, limit) :
                fetched \in UNION {Orders(N, emb) :
                    N \in NearestSets(matching, emb, n_results(n, count(mem)))}}

\* MemoryStore.search without tag or date filters, store.py:131-175: the
\* possible results, each memory with score = 1 - distance
search(mem, q, limit, include_superseded) ==
    LET where == exclude_superseded(NoWhere, include_superseded)
        memory(r) == [id |-> r.id, content |-> r.text, chunk_type |-> r.chunk_type,
                      score |-> 100 - distance(embed(q), embed(r.text))]
    IN IF count(mem) = 0 THEN {<<>>}
       ELSE {Slice([i \in DOMAIN rs |-> memory(rs[i])], 0, limit) :
                rs \in query(mem, embed(q), limit, where)}

\* MemoryStore._iter_metadata, store.py:264-277: every record, by scan
iter_metadata(mem) == scan(mem, 0, count(mem), NoWhere)[1]

\* The records a view counts: superseded ones only with include_superseded.
visible(recs, include_superseded) ==
    SelectSeq(recs, LAMBDA r : include_superseded \/ r.superseded_by = NoId)

RECURSIVE Sum(_, _)
Sum(f, S) == IF S = {} THEN 0
             ELSE LET x == CHOOSE y \in S : TRUE IN f[x] + Sum(f, S \ {x})

\* MemoryStore.list_topics, store.py:279-284: tag -> occurrences
list_topics(mem, include_superseded) ==
    LET recs == visible(iter_metadata(mem), include_superseded)
        tags == UNION {Range(recs[i].tags) : i \in DOMAIN recs}
    IN [t \in tags |-> Sum([i \in DOMAIN recs |-> Count(t, recs[i].tags)],
                           DOMAIN recs)]

\* MemoryStore.stats, store.py:333-344
stats(mem, include_superseded) ==
    LET recs == visible(iter_metadata(mem), include_superseded)
        types == {recs[i].chunk_type : i \in DOMAIN recs}
    IN [total |-> Len(recs),
        by_type |-> [c \in types |->
                        Cardinality({i \in DOMAIN recs : recs[i].chunk_type = c})],
        by_tag |-> list_topics(mem, include_superseded)]

\* MemoryStore.browse without tag filter, store.py:312-331: <<page, total>>
browse(mem, offset, limit, chunk_type, include_superseded) ==
    IF count(mem) = 0 THEN << <<>>, 0 >>
    ELSE scan(mem, offset, limit,
              exclude_superseded(build_where(chunk_type, {}), include_superseded))

(***************************************************************************)
(* MemoryStore: the methods, step by step.                                 *)
(***************************************************************************)
\* A record as store() builds it (store.py:117-126).
Memory(id, text, tags, source, chunk_type) ==
    [id |-> id, text |-> text, tags |-> tags, source |-> source,
     chunk_type |-> chunk_type, superseded_by |-> NoId,
     created_at |-> isoformat(ms.now), updated_at |-> <<>>,
     \* no hit_count key (0) and no last_accessed_at key (the empty string)
     hit_count |-> 0, last_accessed_at |-> <<>>,
     \* no file_mtime key (0), store.py:125-126
     file_mtime |-> 0]

\* An id that no store() gives out.
UnknownId == 0 - 1

\* The ids a `supersedes` or delete argument may name: none, the ids given
\* out so far, and one that is never given out.
IdArgs == {NoId, UnknownId} \cup (1..(ms.next_id - 1))

\* store(content, tags, source, supersedes), store.py:109-127: the record
\* is built and inserted
store_insert_from(t, content, tags, source, supersedes) ==
    /\ th[t].pc = "idle"
    /\ ms.started < MaxMutations
    /\ ms' = [ms EXCEPT
                !.mem = insert(@, Memory(ms.next_id, content, tags, source,
                                         "agent-memory")),
                !.next_id = @ + 1,
                !.started = @ + 1]
    /\ th' = [th EXCEPT ![t].pc = "store_supersede", ![t].op = "store",
                        ![t].arg = [content |-> content, tags |-> tags,
                                    source |-> source,
                                    supersedes |-> supersedes],
                        ![t].tmp = ms.next_id]
    /\ UNCHANGED <<pool, bus>>

\* store() with the default source ""
store_insert(t, content, tags, supersedes) ==
    store_insert_from(t, content, tags, <<>>, supersedes)

\* store(): when `supersedes` names an existing id, that record's
\* superseded_by becomes the new id; an id that does not exist marks nothing
mark_superseded(mem, target, new_id) ==
    [i \in DOMAIN mem |->
        IF target # NoId /\ mem[i].id = target
        THEN [mem[i] EXCEPT !.superseded_by = new_id]
        ELSE mem[i]]

store_supersede(t) ==
    /\ th[t].pc = "store_supersede"
    /\ ms' = [ms EXCEPT !.mem = mark_superseded(@, th[t].arg.supersedes, th[t].tmp)]
    /\ Goto(t, "invalidate")
    /\ UNCHANGED <<pool, bus>>

\* delete(mem_id), store.py:184-185: the backend call
delete_backend(t, mem_id) ==
    /\ th[t].pc = "idle"
    /\ ms.started < MaxMutations
    /\ ms' = [ms EXCEPT !.mem = delete(@, {mem_id}), !.started = @ + 1]
    /\ th' = [th EXCEPT ![t].pc = "invalidate", ![t].op = "delete",
                        ![t].arg = [mem_id |-> mem_id], ![t].tmp = NoId]
    /\ UNCHANGED <<pool, bus>>

\* _invalidate_tag_cache(), store.py:36-39, the last statement of store()
\* (line 128) and of delete() (line 186); then the method returns
invalidate_tag_cache(t) ==
    /\ th[t].pc = "invalidate"
    /\ ms' = [ms EXCEPT !.tag_cache = [built |-> FALSE, map |-> <<>>],
                        !.finished = @ + 1]
    /\ th' = [th EXCEPT ![t].ret = th[t].tmp,
                        \* a tool of the server pushes its event next
                        ![t].pc = IF th[t].op \in {"store_memory", "update_memory",
                                                   "retag_memory"}
                                  THEN "push" ELSE "return"]
    /\ UNCHANGED <<pool, bus>>

\* the caller has the result: the thread is idle again
method_return(t) ==
    /\ th[t].pc = "return"
    /\ Return(t)
    /\ UNCHANGED <<pool, bus, ms>>

\* _expand_tags(filter_tags) calls _get_tag_embeddings(), store.py:44-46:
\* under the cache lock, a built cache is returned as it is
get_tag_embeddings_check(t, filter_tags) ==
    /\ th[t].pc = "idle"
    /\ th' = [th EXCEPT
                ![t].op = "expand_tags",
                \* clean, epoch: history values, the mutating calls at this moment
                ![t].arg = [filter_tags |-> filter_tags,
                            clean |-> ms.started = ms.finished,
                            epoch |-> ms.started],
                ![t].tmp = ms.tag_cache.map,
                ![t].pc = IF ms.tag_cache.built THEN "expand" ELSE "list_topics"]
    /\ UNCHANGED <<pool, bus, ms>>

\* store.py:47: topics = self.list_topics(), outside the lock
get_tag_embeddings_list_topics(t) ==
    /\ th[t].pc = "list_topics"
    /\ th' = [th EXCEPT ![t].tmp = list_topics(ms.mem, FALSE), ![t].pc = "build"]
    /\ UNCHANGED <<pool, bus, ms>>

\* store.py:48-57: the map tag -> embedding is built from the topics read,
\* and under the cache lock it becomes the cache
get_tag_embeddings_build(t) ==
    /\ th[t].pc = "build"
    /\ LET cache == [name \in DOMAIN th[t].tmp |-> embed(name)]
       IN /\ ms' = [ms EXCEPT !.tag_cache = [built |-> TRUE, map |-> cache]]
          /\ th' = [th EXCEPT ![t].tmp = cache, ![t].pc = "expand"]
    /\ UNCHANGED <<pool, bus>>

\* _expand_tags, store.py:59-82: the filter tags and every known tag similar
\* enough to one of them; tmp keeps the map that was used
expand_tags(t) ==
    /\ th[t].pc = "expand"
    /\ LET tag_embeddings == th[t].tmp
           filter_tags == Range(th[t].arg.filter_tags)
       IN th' = [th EXCEPT
                   ![t].ret = filter_tags \cup
                       {known \in DOMAIN tag_embeddings :
                           \E f \in filter_tags :
                               100 - distance(embed(f), tag_embeddings[known])
                                   >= FUZZY_TAG_THRESHOLD},
                   ![t].pc = "return"]
    /\ UNCHANGED <<pool, bus, ms>>

\* One step of a MemoryStore method that has begun.
StoreStep(t) ==
    \/ store_supersede(t)
    \/ invalidate_tag_cache(t)
    \/ get_tag_embeddings_list_topics(t)
    \/ get_tag_embeddings_build(t)
    \/ expand_tags(t)
    \/ method_return(t)

\* Threads that store, delete and look tags up on one MemoryStore.
NextTagCache ==
    \/ \E t \in Callers, tags \in TagLists : store_insert(t, "c", tags, NoId)
    \/ \E t \in Callers, x \in IdArgs \ {NoId} : delete_backend(t, x)
    \/ \E t \in Callers : get_tag_embeddings_check(t, <<"auth">>)
    \/ \E t \in Callers : StoreStep(t)

SpecTagCache == Init /\ [][NextTagCache]_vars

\* The single client of the sequential specifications.
Client == <<"caller", 1>>

\* s.startswith(prefix), on sources written as lists of their parts
startswith(src, prefix) ==
    Len(prefix) <= Len(src) /\ SubSeq(src, 1, Len(prefix)) = prefix

\* MemoryStore.delete_by_source, store.py:286-295: the collection afterwards
delete_by_source(mem, prefix) ==
    LET all == iter_metadata(mem)
        ids_to_delete == {all[i].id : i \in {j \in DOMAIN all :
                                startswith(all[j].source, prefix)}}
    IN delete(mem, ids_to_delete)

\* index_file(store, file_path), indexer.py:70-106, for a file of n chunks
\* that all read `text`: the old chunks of the file go, then each chunk is
\* stored as a file-indexed record, and every store() invalidates the cache
index_file(t, path, n, text) ==
    LET chunk(k) == Memory(ms.next_id + k - 1, text, <<"auth">>,
                           <<"file:", path, "|", k>>, "file-indexed")
        cleared == delete_by_source(ms.mem, <<"file:", path>>)
    IN /\ th[t].pc = "idle"
       /\ ms.started < MaxMutations
       /\ ms' = [ms EXCEPT
                   !.mem = cleared \o [k \in 1..n |-> chunk(k)],
                   !.next_id = @ + n,
                   !.tag_cache = [built |-> FALSE, map |-> <<>>],
                   !.started = @ + 1, !.finished = @ + 1]
       /\ th' = [th EXCEPT ![t].pc = "return", ![t].op = "index_file",
                           ![t].arg = [path |-> path, n |-> n], ![t].ret = n]
       /\ UNCHANGED <<pool, bus>>

\* store.search(query=content, limit=10) as store_memory uses it
\* (server.py:220): no filter, so the backend fetches `limit` records and
\* none is cut; the loop over the result looks at every candidate, so the
\* result is kept as the set of its memories
search_candidates(mem, q, limit) ==
    LET all == {mem[i] : i \in DOMAIN mem}
        memory(r) == [id |-> r.id, content |-> r.text, chunk_type |-> r.chunk_type,
                      score |-> 100 - distance(embed(q), embed(r.text))]
    IN IF count(mem) = 0 THEN {{}}
       ELSE {{memory(r) : r \in N} :
                N \in NearestSets(all, embed(q), n_results(limit, count(mem)))}

\* server.py:221-224: the candidate that makes store_memory skip
is_duplicate(candidate) ==
    candidate.chunk_type = "agent-memory" /\ candidate.score > DEDUP_THRESHOLD

\* str.strip() and str.lower() on the tags of the model (other tags are
\* lowercase and have no space around them)
strip(tag) == IF tag = " auth" THEN "auth" ELSE tag
lower(tag) == IF tag = "Auth" THEN "auth" ELSE tag

normalize_tags_keep_duplicates(tags) ==
    LET n == [i \in DOMAIN tags |-> lower(strip(tags[i]))]
    IN SelectSeq(n, LAMBDA x : x # "")
\* _normalize_tags, server.py:22-35: stripped, lowercased, empty ones and
\* later duplicates dropped
normalize_tags(tags) ==
    LET n == [i \in DOMAIN tags |-> lower(strip(tags[i]))]
        first(i) == n[i] # "" /\ \A j \in 1..(i - 1) : n[j] # n[i]
        kept == {i \in DOMAIN n : first(i)}
        RECURSIVE build(_)
        build(i) == IF i > Len(n) THEN <<>>
                    ELSE (IF i \in kept THEN <<n[i]>> ELSE <<>>) \o build(i + 1)
    IN build(1)

\* store_memory(project, content, tags), server.py:206-228: the duplicate
\* check; with a duplicate among the candidates the call returns "Skipped",
\* otherwise it goes on to store.store (line 230)
store_memory_check(t, content, tags, source) ==
    /\ th[t].pc = "idle"
    /\ ms.started < MaxMutations
    /\ \E existing \in search_candidates(ms.mem, content, DEDUP_SEARCH_LIMIT) :
          th' = [th EXCEPT
                   ![t].op = "store_memory",
                   ![t].arg = [content |-> content, given |-> tags,
                               tags |-> normalize_tags(tags), source |-> source,
                               supersedes |-> NoId],
                   ![t].ret = NoId,
                   ![t].pc = IF \E candidate \in existing : is_duplicate(candidate)
                             THEN "return" ELSE "store"]
    /\ UNCHANGED <<pool, bus, ms>>

\* server.py:230 calls store.store(content, tags, source): store.py:109-127
store_memory_store(t) ==
    /\ th[t].pc = "store"
    /\ ms' = [ms EXCEPT
                !.mem = insert(@, Memory(ms.next_id, th[t].arg.content,
                                         th[t].arg.tags, th[t].arg.source,
                                         "agent-memory")),
                !.next_id = @ + 1,
                !.started = @ + 1]
    /\ th' = [th EXCEPT ![t].pc = "store_supersede", ![t].tmp = ms.next_id]
    /\ UNCHANGED <<pool, bus>>

\* server.py:231-232: the memory_stored event, then the id is returned
store_memory_push(t) ==
    /\ th[t].pc = "push" /\ th[t].op = "store_memory"
    /\ bus.lock = NoThread
    /\ bus' = push_no_subscriber(bus, Event("memory_stored", "a", ToString(th[t].ret)))
    /\ Goto(t, "return")
    /\ UNCHANGED <<pool, ms>>

\* Chunks in an indexed file: one, or as many as the duplicate check fetches.
ChunkCounts == {1, DEDUP_SEARCH_LIMIT}

\* One client stores memories through store_memory while a file is indexed.
NextDedup ==
    \/ \E content \in Contents : store_memory_check(Client, content, <<"auth">>, <<>>)
    \/ store_memory_store(Client)
    \/ store_memory_push(Client)
    \/ \E n \in ChunkCounts, text \in {"c", "d"} : index_file(Client, "f", n, text)
    \/ store_supersede(Client)
    \/ invalidate_tag_cache(Client)
    \/ method_return(Client)

SpecDedup == Init /\ [][NextDedup]_vars

\* search(query, limit, include_superseded) as one call of a single client
call_search(t, q, limit, include_superseded) ==
    /\ th[t].pc = "idle"
    /\ \E result \in search(ms.mem, q, limit, include_superseded) :
          th' = [th EXCEPT ![t].pc = "return", ![t].op = "search",
                           ![t].arg = [limit |-> limit,
                                       include_superseded |-> include_superseded],
                           ![t].ret = result]
    /\ UNCHANGED <<pool, bus, ms>>

\* browse(offset, limit, include_superseded)
call_browse(t, offset, limit, include_superseded) ==
    /\ th[t].pc = "idle"
    /\ th' = [th EXCEPT ![t].pc = "return", ![t].op = "browse",
                        ![t].arg = [offset |-> offset, limit |-> limit,
                                    include_superseded |-> include_superseded],
                        ![t].ret = browse(ms.mem, offset, limit, "",
                                          include_superseded)]
    /\ UNCHANGED <<pool, bus, ms>>

\* list_topics(include_superseded)
call_list_topics(t, include_superseded) ==
    /\ th[t].pc = "idle"
    /\ th' = [th EXCEPT ![t].pc = "return", ![t].op = "list_topics",
                        ![t].arg = [include_superseded |-> include_superseded],
                        ![t].ret = list_topics(ms.mem, include_superseded)]
    /\ UNCHANGED <<pool, bus, ms>>

\* stats(include_superseded)
call_stats(t, include_superseded) ==
    /\ th[t].pc = "idle"
    /\ th' = [th EXCEPT ![t].pc = "return", ![t].op = "stats",
                        ![t].arg = [include_superseded |-> include_superseded],
                        ![t].ret = stats(ms.mem, include_superseded)]
    /\ UNCHANGED <<pool, bus, ms>>

\* Page sizes and offsets the client asks for: one record, or all of them.
Limits == {1, MaxMutations}
Offsets == {0, 1}

\* One client stores, supersedes, deletes and reads the views.
NextStore ==
    \/ \E content \in {"c", "d"}, tags \in TagLists, x \in IdArgs :
          store_insert(Client, content, tags, x)
    \/ \E x \in IdArgs \ {NoId} : delete_backend(Client, x)
    \/ get_tag_embeddings_check(Client, <<"auth">>)
    \/ \E limit \in Limits, inc \in BOOLEAN : call_search(Client, "c", limit, inc)
    \/ \E offset \in Offsets, limit \in Limits, inc \in BOOLEAN :
          call_browse(Client, offset, limit, inc)
    \/ \E inc \in BOOLEAN : call_list_topics(Client, inc)
    \/ \E inc \in BOOLEAN : call_stats(Client, inc)
    \/ StoreStep(Client)

SpecStore == Init /\ [][NextStore]_vars

(***************************************************************************)
(* MemoryStore.store_batch.                                                *)
(***************************************************************************)
store_new_as_file_indexed(mem, id, content, tags) ==
    insert(mem, Memory(id, content, tags, <<>>, "file-indexed"))
\* MemoryStore.store(content, tags), store.py:109-127, with the default
\* source and chunk_type: the collection afterwards
store_new(mem, id, content, tags) ==
    insert(mem, Memory(id, content, tags, <<>>, "agent-memory"))

\* store_batch skips on a score of 0.95 or more, in hundredths.
BATCH_DEDUP_THRESHOLD == 95

\* The best score of `content` against the agent-memories of the collection
\* (the items accepted earlier in the batch are among them); 0 without any.
best_same_type_score(mem, content) ==
    LET scores == {100 - distance(embed(content), embed(mem[i].text)) :
                      i \in {j \in DOMAIN mem : mem[j].chunk_type = "agent-memory"}}
    IN IF scores = {} THEN 0 ELSE CHOOSE s \in scores : \A o \in scores : o <= s

\* store_batch(items): the items in order; an item without `supersedes`
\* whose best same-type match scores 0.95 or more is skipped, every other
\* item is stored (and marks the memory it supersedes).  The result is the
\* collection, the next id and the per-item outcomes.
RECURSIVE store_batch(_, _, _, _)
store_batch(mem, next, items, out) ==
    IF items = <<>> THEN [mem |-> mem, next_id |-> next, items |-> out]
    ELSE LET item == Head(items)
             skip == /\ item.supersedes = NoId
                     /\ best_same_type_score(mem, item.content) >= BATCH_DEDUP_THRESHOLD
         IN IF skip
            THEN store_batch(mem, next, Tail(items),
                             Append(out, [status |-> "skipped", mem_id |-> NoId]))
            ELSE store_batch(
                    mark_superseded(store_new(mem, next, item.content, <<"auth">>),
                                    item.supersedes, next),
                    next + 1, Tail(items),
                    Append(out, [status |-> "stored", mem_id |-> next]))

\* store_batch(items) as one call of the client: the outcomes with the
\* stored and skipped counts; tmp keeps the collection as it was before
call_store_batch(t, items) ==
    LET r == store_batch(ms.mem, ms.next_id, items, <<>>)
        n(status) == Cardinality({i \in DOMAIN r.items : r.items[i].status = status})
    IN /\ th[t].pc = "idle"
       /\ ms.started < MaxMutations
       /\ ms' = [ms EXCEPT !.mem = r.mem, !.next_id = r.next_id,
                           !.tag_cache = [built |-> FALSE, map |-> <<>>],
                           !.started = @ + 1, !.finished = @ + 1]
       /\ th' = [th EXCEPT ![t].pc = "return", ![t].op = "store_batch",
                           ![t].arg = [items |-> items],
                           ![t].tmp = ms.mem,
                           ![t].ret = [items |-> r.items,
                                       stored_count |-> n("stored"),
                                       skipped_count |-> n("skipped")]]
       /\ UNCHANGED <<pool, bus>>

\* The items a batch may hold: any content without supersedes, and "c"
\* superseding the first memory.
BatchItems ==
    [content : Contents, supersedes : {NoId}]
        \cup {[content |-> "c", supersedes |-> 1]}
Batches == UNION {[1..n -> BatchItems] : n \in 0..MaxBatch}

\* One client stores single memories and batches.
NextBatch ==
    \/ \E content \in {"c", "d"} : store_insert(Client, content, <<"auth">>, NoId)
    \/ \E items \in Batches : call_store_batch(Client, items)
    \/ store_supersede(Client)
    \/ invalidate_tag_cache(Client)
    \/ method_return(Client)

SpecBatch == Init /\ [][NextBatch]_vars

(***************************************************************************)
(* VectorBackend.query called with any where-clause and limit.             *)
(***************************************************************************)
\* backend.query(embedding of q, limit, where), chromadb.py:51-84, as one call
call_query(t, q, limit, where) ==
    /\ th[t].pc = "idle"
    /\ \E result \in query(ms.mem, embed(q), limit, where) :
          th' = [th EXCEPT ![t].pc = "return", ![t].op = "query",
                           ![t].arg = [q |-> q, limit |-> limit, where |-> where],
                           ![t].ret = result]
    /\ UNCHANGED <<pool, bus, ms>>

\* The where-clauses asked: an optional chunk_type equality, an optional
\* tags $contains_any, an optional superseded_by $not_exists.
Wheres ==
    [chunk_type : {"", "agent-memory", "file-indexed"},
     tags : {{}, {"billing"}, {"auth", "billing"}},
     not_superseded : BOOLEAN, created_at : {NoBounds}]

\* The limits asked: none, one, and as many as there may be records.
QueryLimits == 0..MaxMutations

\* One client fills a collection with memories and file chunks and queries it.
NextQuery ==
    \/ \E content \in {"c", "d"}, tags \in TagLists, x \in IdArgs \cap {NoId, 1} :
          store_insert(Client, content, tags, x)
    \/ \E text \in {"c", "d"} : index_file(Client, "f", 1, text)
    \/ \E q \in {"c"}, limit \in QueryLimits, where \in Wheres :
          call_query(Client, q, limit, where)
    \/ \E limit \in QueryLimits, inc \in BOOLEAN : call_search(Client, "c", limit, inc)
    \/ store_supersede(Client)
    \/ invalidate_tag_cache(Client)
    \/ method_return(Client)

SpecQuery == Init /\ [][NextQuery]_vars

(***************************************************************************)
(* MemoryStore.browse, page after page.                                    *)
(***************************************************************************)
\* _expand_tags over a freshly built tag map (store.py:41-82): the filter
\* tags and the known tags similar enough to one of them
expand(mem, filter_tags) ==
    filter_tags \cup
        {known \in DOMAIN list_topics(mem, FALSE) :
            \E f \in filter_tags :
                100 - distance(embed(f), embed(known)) >= FUZZY_TAG_THRESHOLD}

\* QdrantBackend._split_where, qdrant.py:295-313: equality and $contains_any
\* go to the collection, every other operator clause is applied afterwards
qdrant_split_where(where) ==
    [native |-> [chunk_type |-> where.chunk_type, tags |-> where.tags],
     post |-> [tags |-> {}, not_superseded |-> where.not_superseded,
               created_at |-> where.created_at]]

\* QdrantBackend._build_filter, qdrant.py:316-336: MatchValue and MatchAny
qdrant_filter(r, native) ==
    /\ native.chunk_type = "" \/ r.chunk_type = native.chunk_type
    /\ native.tags # {} => \E i \in DOMAIN r.tags : r.tags[i] \in native.tags

\* client.scroll: up to `limit` records from the cursor on, and the cursor of
\* the next call (0 for None: nothing is left)
scroll(matching, cursor, limit) ==
    LET from == IF cursor = 0 THEN 1 ELSE cursor IN
    [records |-> SubSeq(matching, from, Min(from + limit - 1, Len(matching))),
     next_offset |-> IF from + limit <= Len(matching) THEN from + limit ELSE 0]

\* qdrant.py:199-216: scroll everything, keep what passes the post-filter
RECURSIVE scroll_all(_, _, _)
scroll_all(matching, cursor, post) ==
    LET s == scroll(matching, cursor, QdrantScrollLimit)
        kept == SelectSeq(s.records, LAMBDA r : passes_post_filters(r, post))
    IN IF s.records = <<>> THEN <<>>
       ELSE IF s.next_offset = 0 THEN kept
       ELSE kept \o scroll_all(matching, s.next_offset, post)

\* qdrant.py:229-258: scroll with offset skipping until `limit` are collected
RECURSIVE scroll_collect(_, _, _, _, _, _)
scroll_collect(matching, offset, limit, collected, skipped, cursor) ==
    IF Len(collected) >= limit THEN collected
    ELSE LET wanted == Min(limit - Len(collected)
                              + (IF skipped < offset THEN offset - skipped ELSE 0),
                           QdrantScrollLimit)
             batch_size == IF wanted <= 0 THEN limit ELSE wanted
             s == scroll(matching, cursor, batch_size)
             skip == IF skipped < offset
                     THEN Min(offset - skipped, Len(s.records)) ELSE 0
             rest == SubSeq(s.records, skip + 1, Len(s.records))
             got == collected \o
                      SubSeq(rest, 1, Min(limit - Len(collected), Len(rest)))
         IN IF s.records = <<>> THEN collected
            ELSE IF s.next_offset = 0 THEN got
            ELSE scroll_collect(matching, offset, limit, got, skipped + skip,
                                s.next_offset)

\* QdrantBackend.scan, qdrant.py:190-260: <<page, total>>
qdrant_scan(mem, offset, limit, where) ==
    LET sw == qdrant_split_where(where)
        matching == SelectSeq(mem, LAMBDA r : qdrant_filter(r, sw.native))
        all_results == scroll_all(matching, 0, sw.post)
    IN IF ~no_post_filters(sw.post)
       THEN <<Slice(all_results, offset, limit), Len(all_results)>>
       ELSE IF Len(matching) = 0 THEN << <<>>, 0 >>
       ELSE <<scroll_collect(matching, offset, limit, <<>>, 0, 0), Len(matching)>>

Backends == {"chromadb", "qdrant"}

\* self._backend.scan of the configured backend
backend_scan(backend, mem, offset, limit, where) ==
    IF backend = "qdrant" THEN qdrant_scan(mem, offset, limit, where)
    ELSE scan(mem, offset, limit, where)

\* MemoryStore.browse with chunk_type and tags filters, store.py:312-331
browse_filtered(backend, mem, offset, limit, chunk_type, tags, inc) ==
    IF count(mem) = 0 THEN << <<>>, 0 >>
    ELSE backend_scan(backend, mem, offset, limit,
              exclude_superseded(
                  build_where(chunk_type,
                              IF tags = {} THEN {} ELSE expand(mem, tags)),
                  inc))

\* The client browses an unchanged store at offsets 0, limit, 2*limit, ...
\* until the offset passes the number of records: the list of the results
call_browse_pages(t, backend, limit, chunk_type, tags, include_superseded) ==
    /\ th[t].pc = "idle"
    /\ th' = [th EXCEPT
                ![t].pc = "return", ![t].op = "browse_pages",
                ![t].arg = [backend |-> backend,
                            limit |-> limit, chunk_type |-> chunk_type,
                            tags |-> tags,
                            include_superseded |-> include_superseded],
                ![t].ret = [k \in 1..((count(ms.mem) \div limit) + 1) |->
                              browse_filtered(backend, ms.mem, (k - 1) * limit,
                                              limit, chunk_type, tags,
                                              include_superseded)]]
    /\ UNCHANGED <<pool, bus, ms>>

\* Page sizes: from one record to all of them.
PageSizes == 1..MaxMutations

\* One client fills a collection and browses it page by page.
NextBrowse ==
    \/ \E content \in {"c", "d"}, tags \in TagLists, x \in IdArgs \cap {NoId, 1} :
          store_insert(Client, content, tags, x)
    \/ \E text \in {"c", "d"} : index_file(Client, "f", 1, text)
    \/ \E limit \in PageSizes, chunk_type \in {"", "agent-memory"},
          tags \in {{}, {"billing"}}, inc \in BOOLEAN :
          \E backend \in Backends :
             call_browse_pages(Client, backend, limit, chunk_type, tags, inc)
    \/ store_supersede(Client)
    \/ invalidate_tag_cache(Client)
    \/ method_return(Client)

SpecBrowse == Init /\ [][NextBrowse]_vars

(***************************************************************************)
(* MemoryStore.search with date bounds.                                    *)
(***************************************************************************)
\* The value that stands for Python's None where a string is expected.
None == <<0 - 1>>

IsDigit(ch) == ch \in {Digit(n) : n \in 0..9}

\* _ISO_DATE_RE.match(value), store.py:14: a date, with or without a time,
\* at the start of the value
matches_iso_date(value) == Len(value) >= 1 /\ IsDigit(value[1])

\* _normalize_date_bound, store.py:17-26
normalize_date_bound(value, end_of_day) ==
    IF ~matches_iso_date(value) THEN None
    ELSE IF \E i \in DOMAIN value : value[i] = CharT THEN value
    ELSE value \o <<CharT, Digit(IF end_of_day THEN LastSecond ELSE 0)>>

\* MemoryStore._build_where, store.py:101-106: the bounds on created_at
build_where_dates(where, after, before) ==
    [where EXCEPT !.created_at = [gt |-> after, lt |-> before]]

\* the memories of a result list, store.py:159-175
format_results(rs, limit) ==
    Slice([i \in DOMAIN rs |->
             [id |-> rs[i].id, content |-> rs[i].text,
              chunk_type |-> rs[i].chunk_type,
              created_at |-> rs[i].created_at]], 0, limit)

\* MemoryStore.search(query, limit, after, before), store.py:131-175: the
\* bounds are normalised and checked first, an empty collection is answered
\* without a query.  tmp counts the calls made to the backend.
call_search_dates(t, q, limit, after, before) ==
    LET a == IF after # <<>> THEN normalize_date_bound(after, FALSE) ELSE <<>>
        b == IF before # <<>> THEN normalize_date_bound(before, TRUE) ELSE <<>>
        where == exclude_superseded(build_where_dates(NoWhere, a, b), FALSE)
        called == [th EXCEPT ![t].pc = "return", ![t].op = "search_dates",
                             ![t].arg = [limit |-> limit, after |-> after,
                                         before |-> before],
                             ![t].snapshot = ms.mem]
    IN /\ th[t].pc = "idle"
       /\ IF a = None \/ b = None
          THEN th' = [called EXCEPT ![t].exc = "ValueError",
                                    ![t].tmp = [backend_calls |-> 0]]
          ELSE IF count(ms.mem) = 0
          THEN th' = [called EXCEPT ![t].ret = <<>>,
                                    ![t].tmp = [backend_calls |-> 1]]
          ELSE \E rs \in query(ms.mem, embed(q), limit, where) :
                  th' = [called EXCEPT ![t].ret = format_results(rs, limit),
                                       ![t].tmp = [backend_calls |-> 2]]
       /\ UNCHANGED <<pool, bus, ms>>

\* The moments of the scaled calendar, and their order.
Moments == [day : 1..MaxDay, sec : 0..LastSecond, micro : 0..1]

Later(m, n) ==
    \/ m.day < n.day
    \/ m.day = n.day /\ m.sec < n.sec
    \/ m.day = n.day /\ m.sec = n.sec /\ m.micro < n.micro

\* Time passes, up to one of the given moments.
tick_to(moments) ==
    /\ \E n \in moments : Later(ms.now, n) /\ ms' = [ms EXCEPT !.now = n]
    /\ UNCHANGED <<th, pool, bus>>

tick == tick_to(Moments)

\* Values given as `after` or `before`: nothing, a date, a date with a time,
\* and a word that is neither.
Dates == {<<Digit(d)>> : d \in 1..MaxDay}
DateTimes == {<<Digit(d), CharT, Digit(s)>> : d \in 1..MaxDay, s \in 0..LastSecond}
Words == {<<121>>}
DateArgs == {<<>>} \cup Dates \cup DateTimes \cup Words

\* One client stores memories as time passes and searches with date bounds.
NextDates ==
    \/ tick
    \/ store_insert(Client, "c", <<"auth">>, NoId)
    \/ \E after \in DateArgs, before \in DateArgs :
          call_search_dates(Client, "c", MaxMutations, after, before)
    \/ store_supersede(Client)
    \/ invalidate_tag_cache(Client)
    \/ method_return(Client)

SpecDates == Init /\ [][NextDates]_vars

(***************************************************************************)
(* Store, then read back by id.                                            *)
(***************************************************************************)
\* MemoryStore._format_result, store.py:350-360
format_result(r) ==
    [id |-> r.id, content |-> r.text, tags |-> r.tags, source |-> r.source,
     chunk_type |-> r.chunk_type, created_at |-> r.created_at]

\* MemoryStore.get_by_ids, store.py:177-182
get_by_ids(mem, ids) ==
    IF ids = {} THEN <<>>
    ELSE LET results == get(mem, ids)
         IN [i \in DOMAIN results |-> format_result(results[i])]

\* get_by_ids(ids) as one call
call_get_by_ids(t, ids) ==
    /\ th[t].pc = "idle"
    /\ th' = [th EXCEPT ![t].pc = "return", ![t].op = "get_by_ids",
                        ![t].arg = [ids |-> ids],
                        ![t].ret = get_by_ids(ms.mem, ids)]
    /\ UNCHANGED <<pool, bus, ms>>

\* Tag lists as a caller may write them (capitals, spaces, empty tags,
\* repetitions), and the sources of a memory.
RawTagLists ==
    {<<>>, <<"Auth">>, <<"Auth", "auth">>, <<" auth", "auth">>,
     <<"", "billing">>, <<"billing", "Auth">>}
Sources == {<<>>, <<"session">>}

\* One client stores memories, through the tool or straight into the store,
\* and reads them back.
NextRoundTrip ==
    \/ \E tags \in RawTagLists, source \in Sources :
          \/ store_insert_from(Client, "c", tags, source, NoId)
          \/ store_memory_check(Client, "d", tags, source)
    \/ store_memory_store(Client)
    \/ store_memory_push(Client)
    \/ \E id \in IdArgs \ {NoId} : call_get_by_ids(Client, {id})
    \/ store_supersede(Client)
    \/ invalidate_tag_cache(Client)
    \/ method_return(Client)

SpecRoundTrip == Init /\ [][NextRoundTrip]_vars

(***************************************************************************)
(* MemoryStore.update and MemoryStore.retag.                               *)
(***************************************************************************)
\* An optional argument: None, or a value.
Nothing == [some |-> FALSE, v |-> <<>>]
Some(v) == [some |-> TRUE, v |-> v]
\* No new content.
NoContent == [some |-> FALSE, v |-> ""]

\* list(dict.fromkeys(l)): the first occurrence of each element, in order
dedupe(l) ==
    LET RECURSIVE build(_)
        build(i) ==
            IF i > Len(l) THEN <<>>
            ELSE (IF \E j \in 1..(i - 1) : l[j] = l[i] THEN <<>> ELSE <<l[i]>>)
                     \o build(i + 1)
    IN build(1)

backend_update_whole_document(mem, id, text, tags, source, updated_at) ==
    [i \in DOMAIN mem |->
        IF mem[i].id = id
        THEN [mem[i] EXCEPT !.text = text.v,
                            !.tags = tags, !.source = source,
                            !.updated_at = updated_at]
        ELSE mem[i]]
\* ChromaBackend.update, chromadb.py:28-45, with the text left as it is or
\* replaced, and new metadata
backend_update(mem, id, text, tags, source, updated_at) ==
    [i \in DOMAIN mem |->
        IF mem[i].id = id
        THEN [mem[i] EXCEPT !.text = IF text.some THEN text.v ELSE @,
                            !.tags = tags, !.source = source,
                            !.updated_at = updated_at]
        ELSE mem[i]]

update_or_insert(mem, now, mem_id, content, tags, source) ==
    LET existing == get(mem, {mem_id})
        old == IF existing = <<>>
               THEN [id |-> mem_id, text |-> "", tags |-> <<>>, source |-> <<>>,
                     chunk_type |-> "agent-memory", superseded_by |-> NoId,
                     created_at |-> isoformat(now), updated_at |-> <<>>,
                     hit_count |-> 0, last_accessed_at |-> <<>>, file_mtime |-> 0]
               ELSE existing[1]
        rest == SelectSeq(mem, LAMBDA r : r.id # mem_id)
    IN [exc |-> "", msg |-> "", backend_calls |-> 2,
        mem |-> backend_update(rest \o <<old>>, mem_id, content,
                               IF tags.some THEN tags.v ELSE old.tags,
                               IF source.some THEN source.v ELSE old.source,
                               isoformat(now))]
\* MemoryStore.update, store.py:188-212: the exception or the new collection
update(mem, now, mem_id, content, tags, source) ==
    LET existing == get(mem, {mem_id})
        old == existing[1]
    IN IF existing = <<>>
       THEN [exc |-> "ValueError", msg |-> "not found", backend_calls |-> 1,
             mem |-> mem]
       ELSE [exc |-> "", msg |-> "", backend_calls |-> 2,
             mem |-> backend_update(mem, mem_id, content,
                                    IF tags.some THEN tags.v ELSE old.tags,
                                    IF source.some THEN source.v ELSE old.source,
                                    isoformat(now))]

retag_invalid_mix_only(add_tags, remove_tags, set_tags) ==
    IF set_tags.some /\ (add_tags.v # <<>> \/ remove_tags.v # <<>>)
    THEN "Cannot mix" ELSE ""
\* MemoryStore.retag, store.py:226-229: the message of the ValueError, ""
\* when the options are valid (None and [] both count as not given)
retag_invalid(add_tags, remove_tags, set_tags) ==
    IF set_tags.some /\ (add_tags.v # <<>> \/ remove_tags.v # <<>>)
    THEN "Cannot mix"
    ELSE IF ~set_tags.some /\ add_tags.v = <<>> /\ remove_tags.v = <<>>
    THEN "Provide at least one"
    ELSE ""

\* store.py:241-242: every add_tag not yet in tag_set is appended
RECURSIVE append_new(_, _)
append_new(tag_set, add_tags) ==
    IF add_tags = <<>> THEN tag_set
    ELSE append_new(IF \E i \in DOMAIN tag_set : tag_set[i] = Head(add_tags)
                    THEN tag_set ELSE Append(tag_set, Head(add_tags)),
                    Tail(add_tags))

retag_final_tags_raw(current_tags, add_tags, remove_tags, set_tags) ==
    IF set_tags.some THEN set_tags.v
    ELSE SelectSeq(current_tags \o add_tags.v,
                   LAMBDA x : \A i \in DOMAIN remove_tags.v : remove_tags.v[i] # x)
\* MemoryStore.retag, store.py:235-247: final_tags
retag_final_tags(current_tags, add_tags, remove_tags, set_tags) ==
    IF set_tags.some THEN dedupe(set_tags.v)
    ELSE SelectSeq(append_new(dedupe(current_tags), add_tags.v),
                   LAMBDA x : \A i \in DOMAIN remove_tags.v : remove_tags.v[i] # x)

\* MemoryStore.retag, store.py:214-256: the exception, or the new collection
\* and the returned tags
retag(mem, now, mem_id, add_tags, remove_tags, set_tags) ==
    LET invalid == retag_invalid(add_tags, remove_tags, set_tags)
        existing == get(mem, {mem_id})
        old == existing[1]
        final_tags == retag_final_tags(old.tags, add_tags, remove_tags, set_tags)
    IN IF invalid # ""
       THEN [exc |-> "ValueError", msg |-> invalid, backend_calls |-> 0,
             mem |-> mem, final_tags |-> <<>>]
       ELSE IF existing = <<>>
       THEN [exc |-> "ValueError", msg |-> "not found", backend_calls |-> 1,
             mem |-> mem, final_tags |-> <<>>]
       ELSE [exc |-> "", msg |-> "", backend_calls |-> 2,
             mem |-> backend_update(mem, mem_id, Nothing, final_tags,
                                    old.source, isoformat(now)),
             final_tags |-> final_tags]

\* A call of retag or update: an exception goes to the caller, otherwise the
\* tag cache is invalidated before the method returns
call_mutator(t, op, arg, out, result) ==
    /\ th[t].pc = "idle"
    /\ out.exc = "" => ms.started < MaxMutations
    /\ ms' = [ms EXCEPT !.mem = out.mem,
                        !.started = IF out.exc = "" THEN @ + 1 ELSE @]
    /\ th' = [th EXCEPT ![t].op = op,
                        ![t].arg = arg @@ [backend_calls |-> out.backend_calls],
                        ![t].snapshot = ms.mem,
                        ![t].exc = out.exc,
                        ![t].tmp = result,
                        ![t].ret = IF out.exc = "" THEN <<>> ELSE out.msg,
                        ![t].pc = IF out.exc = "" THEN "invalidate" ELSE "return"]
    /\ UNCHANGED <<pool, bus>>

call_retag(t, mem_id, add_tags, remove_tags, set_tags) ==
    LET out == retag(ms.mem, ms.now, mem_id, add_tags, remove_tags, set_tags)
    IN call_mutator(t, "retag",
                    [mem_id |-> mem_id, add_tags |-> add_tags,
                     remove_tags |-> remove_tags, set_tags |-> set_tags],
                    out, out.final_tags)

call_update(t, mem_id, content, tags, source) ==
    LET out == update(ms.mem, ms.now, mem_id, content, tags, source)
    IN call_mutator(t, "update",
                    [mem_id |-> mem_id, content |-> content, tags |-> tags,
                     source |-> source],
                    out, <<>>)

\* Tag options of retag and update: not given, empty, with a repetition.
TagOptions ==
    {Nothing, Some(<<>>), Some(<<"auth">>), Some(<<"billing", "auth", "billing">>)}

\* Date arguments of a search beside retag: none, a date, a word.
FewDateArgs == {<<>>, <<Digit(1)>>} \cup Words

\* One client stores, deletes, updates, retags and searches.
NextRetag ==
    \/ \E tags \in {<<"auth">>, <<"auth", "auth", "billing">>} :
          store_insert(Client, "c", tags, NoId)
    \/ \E id \in IdArgs \ {NoId} : delete_backend(Client, id)
    \/ \E id \in IdArgs \ {NoId},
          add_tags \in TagOptions, remove_tags \in TagOptions,
          set_tags \in TagOptions :
          call_retag(Client, id, add_tags, remove_tags, set_tags)
    \/ \E id \in IdArgs \ {NoId}, content \in {NoContent, Some("d")},
          tags \in TagOptions, source \in {Nothing, Some(<<"session">>)} :
          call_update(Client, id, content, tags, source)
    \/ \E after \in FewDateArgs, before \in FewDateArgs :
          call_search_dates(Client, "c", MaxMutations, after, before)
    \/ store_supersede(Client)
    \/ invalidate_tag_cache(Client)
    \/ method_return(Client)

SpecRetag == Init /\ [][NextRetag]_vars

(***************************************************************************)
(* Hit tracking and staleness.                                             *)
(***************************************************************************)
\* search(): every agent-memory result gets hit_count + 1 and
\* last_accessed_at = now, written back to the collection
track_hits(mem, ids, now) ==
    [i \in DOMAIN mem |->
        IF mem[i].id \in ids /\ mem[i].chunk_type = "agent-memory"
        THEN [mem[i] EXCEPT !.hit_count = @ + 1,
                            !.last_accessed_at = isoformat(now)]
        ELSE mem[i]]

\* search(query, limit) with its hit tracking: the results carry the
\* counters as they are after the call
call_search_tracked(t, q, limit) ==
    /\ th[t].pc = "idle"
    /\ \A i \in DOMAIN ms.mem : ms.mem[i].hit_count < MaxHits
    /\ \E result \in search(ms.mem, q, limit, FALSE) :
          LET tracked == track_hits(ms.mem, {result[i].id : i \in DOMAIN result},
                                 ms.now) IN
          /\ ms' = [ms EXCEPT !.mem = tracked]
          /\ th' = [th EXCEPT
                      ![t].pc = "return", ![t].op = "search_tracked",
                      ![t].arg = [limit |-> limit, at |-> ms.now],
                      ![t].snapshot = ms.mem,
                      ![t].ret = [i \in DOMAIN result |->
                                    LET r == get(tracked, {result[i].id})[1]
                                    IN [id |-> r.id, chunk_type |-> r.chunk_type,
                                        hit_count |-> r.hit_count,
                                        last_accessed_at |-> r.last_accessed_at]]]
    /\ UNCHANGED <<pool, bus>>

cutoff_ahead(now, max_age_days) == isoformat([now EXCEPT !.day = @ + max_age_days])
\* (datetime.now(timezone.utc) - timedelta(days=max_age_days)).isoformat(),
\* routes.py:27
cutoff(now, max_age_days) == isoformat([now EXCEPT !.day = @ - max_age_days])

\* routes.py:25-37, _annotate_stale: the `stale` mark of one memory
annotate_stale(r, now, max_age_days) ==
    IF r.chunk_type # "agent-memory" THEN FALSE
    ELSE IF r.last_accessed_at = <<>>
    THEN r.created_at # <<>> /\ str_less(r.created_at, cutoff(now, max_age_days))
    ELSE str_less(r.last_accessed_at, cutoff(now, max_age_days))

\* find_stale(max_age_days, include_never_accessed): the ids of the
\* agent-memory records that are not superseded, by kind of staleness
find_stale(mem, now, max_age_days, include_never_accessed) ==
    LET recs == SelectSeq(iter_metadata(mem),
                          LAMBDA r : /\ r.chunk_type = "agent-memory"
                                     /\ r.superseded_by = NoId)
        old(r) == annotate_stale(r, now, max_age_days)
        stale == SelectSeq(recs, LAMBDA r : r.last_accessed_at # <<>> /\ old(r))
        never == SelectSeq(recs, LAMBDA r : /\ include_never_accessed
                                            /\ r.last_accessed_at = <<>>
                                            /\ old(r))
    IN [stale_ids |-> [i \in DOMAIN stale |-> stale[i].id],
        never_accessed_ids |-> [i \in DOMAIN never |-> never[i].id]]

call_find_stale(t, max_age_days, include_never_accessed) ==
    /\ th[t].pc = "idle"
    /\ th' = [th EXCEPT
                ![t].pc = "return", ![t].op = "find_stale",
                ![t].arg = [max_age_days |-> max_age_days,
                            include_never_accessed |-> include_never_accessed],
                ![t].ret = find_stale(ms.mem, ms.now, max_age_days,
                                      include_never_accessed)]
    /\ UNCHANGED <<pool, bus, ms>>

\* The start and the last second of every day.
DayEnds == {m \in Moments : m.micro = 0 /\ m.sec \in {0, LastSecond}}

\* One client stores and supersedes memories, indexes a file, searches and
\* asks for the stale memories, as the days pass.
NextHits ==
    \/ tick_to(DayEnds)
    \/ \E x \in IdArgs \cap {NoId, 1} : store_insert(Client, "c", <<"auth">>, x)
    \/ index_file(Client, "f", 1, "c")
    \/ \E limit \in Limits : call_search_tracked(Client, "c", limit)
    \/ \E max_age_days \in 0..(MaxDay - 1), inc \in BOOLEAN :
          call_find_stale(Client, max_age_days, inc)
    \/ store_supersede(Client)
    \/ invalidate_tag_cache(Client)
    \/ method_return(Client)

SpecHits == Init /\ [][NextHits]_vars

\* Tag lists stored, and tag filters given, where fuzzy expansion matters:
\* "login" is similar enough to "auth", "billing" to neither.
VocabularyTagLists == {<<"auth">>, <<"login">>, <<"billing">>}
TagFilters == {<<"auth">>, <<"billing">>}

\* Threads that store, delete and expand tag filters on one MemoryStore.
NextExpand ==
    \/ \E t \in Callers, tags \in VocabularyTagLists : store_insert(t, "c", tags, NoId)
    \/ \E t \in Callers, x \in IdArgs \ {NoId} : delete_backend(t, x)
    \/ \E t \in Callers, f \in TagFilters : get_tag_embeddings_check(t, f)
    \/ \E t \in Callers : StoreStep(t)

SpecExpand == Init /\ [][NextExpand]_vars

(***************************************************************************)
(* The operator $not_exists on query, scan and count of both adapters.     *)
(***************************************************************************)
count_where_native_only(mem, where) ==
    Len(SelectSeq(mem, LAMBDA r : native_match(r, split_where(where).native)))
\* ChromaBackend.count with a where clause, chromadb.py:150-178
count_where(mem, where) ==
    LET sw == split_where(where)
        matching == SelectSeq(mem, LAMBDA r : native_match(r, sw.native))
    IN IF no_post_filters(sw.post) THEN Len(matching)
       ELSE IF count(mem) = 0 THEN 0
       ELSE Len(scan_batches(matching, batch_offsets(count(mem)), sw.post))

\* QdrantBackend.count, qdrant.py:262-290
qdrant_count(mem, where) ==
    LET sw == qdrant_split_where(where)
        matching == SelectSeq(mem, LAMBDA r : qdrant_filter(r, sw.native))
    IN IF ~no_post_filters(sw.post) THEN Len(scroll_all(matching, 0, sw.post))
       ELSE Len(matching)

\* QdrantBackend.query (dense vectors only), qdrant.py:133-178
qdrant_query(mem, emb, limit, where) ==
    LET sw == qdrant_split_where(where)
        fetch_limit == IF ~no_post_filters(sw.post) THEN limit * 3 ELSE limit
        matching == {mem[i] : i \in {j \in DOMAIN mem : qdrant_filter(mem[j], sw.native)}}
        out(items) == SelectSeq(items, LAMBDA r : passes_post_filters(r, sw.post))
    IN {Slice(out(items), 0, limit) :
            items \in UNION {Orders(N, emb) :
                N \in NearestSets(matching, emb, fetch_limit)}}

\* backend.query, backend.scan or backend.count of the configured adapter
\* with where = {"superseded_by": {"$not_exists": True}}, as one call; a
\* count and a query give no page total, a count gives no page
call_backend(t, backend, method, offset, limit) ==
    LET where == exclude_superseded(NoWhere, FALSE)
        s == backend_scan(backend, ms.mem, offset, limit, where)
        c == IF backend = "qdrant" THEN qdrant_count(ms.mem, where)
             ELSE count_where(ms.mem, where)
        qs == IF backend = "qdrant" THEN qdrant_query(ms.mem, embed("c"), limit, where)
              ELSE query(ms.mem, embed("c"), limit, where)
        results == IF method = "scan" THEN {[page |-> s[1], total |-> s[2]]}
                   ELSE IF method = "count" THEN {[page |-> <<>>, total |-> c]}
                   ELSE {[page |-> q, total |-> Len(q)] : q \in qs}
    IN /\ th[t].pc = "idle"
       /\ \E result \in results :
             th' = [th EXCEPT ![t].pc = "return", ![t].op = method,
                              ![t].arg = [backend |-> backend, offset |-> offset,
                                          limit |-> limit],
                              ![t].ret = result]
       /\ UNCHANGED <<pool, bus, ms>>

BackendMethods == {"query", "scan", "count"}

\* One client stores memories, some superseding earlier ones, and asks either
\* adapter for the records that are not superseded.
NextNotExists ==
    \/ \E content \in {"c", "d"}, x \in IdArgs : store_insert(Client, content, <<"auth">>, x)
    \/ \E backend \in Backends, method \in BackendMethods, offset \in Offsets, limit \in Limits :
          call_backend(Client, backend, method, offset, limit)
    \/ store_supersede(Client)
    \/ invalidate_tag_cache(Client)
    \/ method_return(Client)

SpecNotExists == Init /\ [][NextNotExists]_vars

(***************************************************************************)
(* The tools update_memory and retag_memory, beside direct calls of the    *)
(* MemoryStore methods.                                                    *)
(***************************************************************************)
\* `_normalize_tags(tags)` of an optional argument: None stays None
normalize_option(tags) == IF tags.some THEN Some(normalize_tags(tags.v)) ELSE Nothing

update_memory_raw(t, mem_id, content, tags, source) ==
    call_mutator(t, "update_memory", [mem_id |-> mem_id, tags |-> tags],
                 update(ms.mem, ms.now, mem_id, content, tags, source), <<>>)
\* update_memory(project, memory_id, content, tags, source), server.py:450-457:
\* with nothing to update the store is not called; the tags are normalised
\* before store.update, and a ValueError becomes the "not found" reply
update_memory(t, mem_id, content, tags, source) ==
    IF ~content.some /\ ~tags.some /\ ~source.some
    THEN /\ th[t].pc = "idle"
         /\ th' = [th EXCEPT ![t].pc = "return", ![t].op = "update_memory",
                             ![t].arg = [mem_id |-> mem_id, tags |-> tags]]
         /\ UNCHANGED <<pool, bus, ms>>
    ELSE call_mutator(t, "update_memory", [mem_id |-> mem_id, tags |-> tags],
                      update(ms.mem, ms.now, mem_id, content,
                             normalize_option(tags), source),
                      <<>>)

\* retag_memory(project, memory_id, add_tags, remove_tags, set_tags),
\* server.py:482-493: the three lists are normalised before store.retag, and
\* a ValueError becomes the error reply
retag_memory(t, mem_id, add_tags, remove_tags, set_tags) ==
    LET out == retag(ms.mem, ms.now, mem_id, normalize_option(add_tags),
                     normalize_option(remove_tags), normalize_option(set_tags))
    IN call_mutator(t, "retag_memory",
                    [mem_id |-> mem_id, add_tags |-> add_tags,
                     remove_tags |-> remove_tags, set_tags |-> set_tags],
                    out, out.final_tags)

\* server.py:458 and 494: the memory_updated event, then the reply
memory_updated_push(t) ==
    /\ th[t].pc = "push" /\ th[t].op \in {"update_memory", "retag_memory"}
    /\ bus.lock = NoThread
    /\ bus' = push_no_subscriber(bus, Event("memory_updated", "a",
                                            ToString(th[t].arg.mem_id)))
    /\ Goto(t, "return")
    /\ UNCHANGED <<pool, ms>>

\* Tag arguments as a caller may write them: not given, with a capital and a
\* repetition, with an empty tag.
RawTagOptions == {Nothing, Some(<<"Auth", "auth">>), Some(<<"", "billing">>)}
GivenTagLists == {<<"Auth", "auth">>, <<"", "billing">>}

\* One client writes memories through the tools of the server or by calling
\* the MemoryStore methods itself.
NextTags ==
    \/ \E content \in {"c", "d"}, tags \in GivenTagLists :
          store_memory_check(Client, content, tags, <<>>)
    \/ store_memory_store(Client)
    \/ store_memory_push(Client)
    \/ \E id \in IdArgs \ {NoId}, tags \in RawTagOptions, content \in {NoContent, Some("d")} :
          update_memory(Client, id, content, tags, Nothing)
    \/ \E id \in IdArgs \ {NoId}, add_tags \in RawTagOptions, set_tags \in RawTagOptions :
          retag_memory(Client, id, add_tags, Nothing, set_tags)
    \/ memory_updated_push(Client)
    \/ \E tags \in GivenTagLists : store_insert(Client, "c", tags, NoId)
    \/ \E id \in IdArgs \ {NoId}, tags \in RawTagOptions :
          call_update(Client, id, NoContent, tags, Nothing)
    \/ \E id \in IdArgs \ {NoId}, set_tags \in RawTagOptions :
          call_retag(Client, id, Nothing, Nothing, set_tags)
    \/ store_supersede(Client)
    \/ invalidate_tag_cache(Client)
    \/ method_return(Client)

SpecTags == Init /\ [][NextTags]_vars

\* str(path), character by character: "fx" is the path "f" with one more
\* character; the other paths are one character long
chars(path) == IF path = "fx" THEN <<"f", "x">> ELSE <<path>>

\* f"file:{file_path}", indexer.py:84, watcher.py:96 and 125
file_prefix(path) == <<"file:">> \o chars(path)

(***************************************************************************)
(* FileWatcher.reconcile over the files of one watch path.  Every path     *)
(* matches the watch patterns; a file is one chunk long.                   *)
(***************************************************************************)
\* MemoryStore.get_file_mtime(source_prefix): the mtime recorded with the
\* chunks of the file, 0 for None.
get_file_mtime(mem, source_prefix) ==
    LET chunks == SelectSeq(mem, LAMBDA r : /\ startswith(r.source, source_prefix)
                                            /\ r.file_mtime # 0)
    IN IF chunks = <<>> THEN 0 ELSE chunks[1].file_mtime

\* index_file(store, file_path, file_mtime), indexer.py:70-106, on the state
\* w of the walk: read_text raises on a file that cannot be read, a blank
\* file returns 0 at once, otherwise the old chunks of the file go and the
\* new chunk is stored with the tags of _derive_tags
indexer_index_file(w, path, file, file_mtime) ==
    LET chunk == [Memory(w.next_id, file.text, <<"indexed">>,
                         file_prefix(path) \o <<"|", 1>>, "file-indexed")
                     EXCEPT !.file_mtime = file_mtime]
    IN IF file.kind = "absent" THEN w
       ELSE IF file.kind = "locked" THEN [w EXCEPT !.exc = TRUE]
       ELSE IF file.text = "" THEN w
       ELSE [w EXCEPT !.mem = insert(delete_by_source(@, file_prefix(path)), chunk),
                      !.next_id = @ + 1]

reconcile_file_uncaught(w, path) ==
    LET file == w.files[path]
        stored_mtime == get_file_mtime(w.mem, file_prefix(path))
        indexed == indexer_index_file(w, path, file, file.mtime)
    IN IF file.kind = "absent" THEN w
       ELSE IF stored_mtime # 0 /\ stored_mtime = file.mtime
            THEN [w EXCEPT !.skipped = @ + 1]
       ELSE IF indexed.exc THEN [w EXCEPT !.raised = TRUE]
       ELSE [indexed EXCEPT !.total = @ + 1]
\* The body of reconcile's loop for one path that rglob yields,
\* watcher.py:115-136: an unchanged file is skipped, any other is handed to
\* index_file and counted; an exception is logged and the loop goes on
reconcile_file(w, path) ==
    LET file == w.files[path]
        current_mtime == file.mtime
        stored_mtime == get_file_mtime(w.mem, file_prefix(path))
        indexed == indexer_index_file(w, path, file, current_mtime)
    IN IF file.kind = "absent" THEN w
       ELSE IF stored_mtime # 0 /\ stored_mtime = current_mtime
            THEN [w EXCEPT !.skipped = @ + 1]
       ELSE IF indexed.exc THEN [w EXCEPT !.logged = @ + 1]
       ELSE [indexed EXCEPT !.total = @ + 1]

\* FileWatcher.reconcile, watcher.py:107-140: the loop over the paths in the
\* order rglob yields them; an exception that leaves the body ends the loop
RECURSIVE reconcile(_, _)
reconcile(w, paths) ==
    IF paths = <<>> \/ w.raised THEN w
    ELSE reconcile(reconcile_file(w, Head(paths)), Tail(paths))

\* The state of a walk that begins: the collection, the next id, the files.
WalkFrom(mem, next_id, files) ==
    [mem |-> mem, next_id |-> next_id, files |-> files, total |-> 0,
     skipped |-> 0, logged |-> 0, raised |-> FALSE, exc |-> FALSE]

\* watcher.reconcile() as one call, with the files in the order `paths`
call_reconcile(t, paths) ==
    LET w == reconcile(WalkFrom(ms.mem, ms.next_id, ms.files), paths)
        stored == w.next_id - ms.next_id
    IN /\ th[t].pc = "idle"
       /\ ms.started + stored <= MaxMutations
       /\ ms' = [ms EXCEPT
                   !.mem = w.mem, !.next_id = w.next_id,
                   !.tag_cache = IF stored > 0 THEN [built |-> FALSE, map |-> <<>>]
                                 ELSE @,
                   !.started = @ + stored, !.finished = @ + stored,
                   !.seen = ms.files]
       /\ th' = [th EXCEPT ![t].pc = "return", ![t].op = "reconcile",
                           ![t].arg = [paths |-> paths, files |-> ms.files,
                                       unchanged |-> ms.seen = ms.files,
                                       logged |-> w.logged],
                           ![t].snapshot = ms.mem,
                           ![t].exc = IF w.raised THEN "raised" ELSE "",
                           ![t].ret = w.total]
       /\ UNCHANGED <<pool, bus>>

\* A file is created or rewritten: new text, later modification time.
write_file(path, text) ==
    /\ ms.files[path].kind # "locked"
    /\ ms.files[path].mtime < MaxMtime
    /\ ms' = [ms EXCEPT !.files[path] =
                [kind |-> "file", text |-> text, mtime |-> @.mtime + 1]]
    /\ UNCHANGED <<th, pool, bus>>

\* A file loses or regains its read permission.
chmod(path) ==
    /\ ms.files[path].kind \in {"file", "locked"}
    /\ ms' = [ms EXCEPT !.files[path].kind = IF @ = "file" THEN "locked" ELSE "file"]
    /\ UNCHANGED <<th, pool, bus>>

\* The orders in which rglob may yield the paths.
WalkOrders == {<<"f", "g">>, <<"g", "f">>}
FileTexts == {"", "c", "d"}

\* Files are written and locked while the watcher reconciles now and then.
NextWatcher ==
    \/ \E paths \in WalkOrders : call_reconcile(Client, paths)
    \/ \E path \in WatchedPaths, text \in FileTexts : write_file(path, text)
    \/ \E path \in WatchedPaths : chmod(path)
    \/ method_return(Client)

SpecWatcher == Init /\ [][NextWatcher]_vars

(***************************************************************************)
(* matches_patterns.  A path or a pattern is the sequence of its           *)
(* characters.                                                             *)
(***************************************************************************)
\* fnmatch.fnmatch(name, pat) for patterns of literal characters and `*`,
\* which matches any run of characters, "/" included
RECURSIVE fnmatch(_, _)
fnmatch(name, pat) ==
    IF pat = <<>> THEN name = <<>>
    ELSE IF Head(pat) = "*"
         THEN fnmatch(name, Tail(pat)) \/ (name # <<>> /\ fnmatch(Tail(name), pat))
         ELSE name # <<>> /\ Head(name) = Head(pat) /\ fnmatch(Tail(name), Tail(pat))

\* rel_path.split("/"), and "/".join(parts)
RECURSIVE split(_)
split(s) ==
    IF \A i \in DOMAIN s : s[i] # "/" THEN <<s>>
    ELSE LET i == CHOOSE j \in DOMAIN s : s[j] = "/" /\ \A k \in 1..(j - 1) : s[k] # "/"
         IN <<SubSeq(s, 1, i - 1)>> \o split(SubSeq(s, i + 1, Len(s)))
RECURSIVE join(_)
join(parts) ==
    IF Len(parts) = 1 THEN parts[1] ELSE parts[1] \o <<"/">> \o join(Tail(parts))

\* _glob_match, watcher.py:37-59
glob_match(rel_path, pattern) ==
    LET suffix == SubSeq(pattern, 4, Len(pattern))
        prefix == SubSeq(pattern, 1, Len(pattern) - 3)
        parts == split(rel_path)
    IN IF startswith(pattern, <<"*", "*", "/">>)
       THEN \/ fnmatch(rel_path, pattern)
            \/ fnmatch(rel_path, suffix)
            \/ \E i \in DOMAIN parts : fnmatch(join(SubSeq(parts, i, Len(parts))), suffix)
       ELSE IF Len(pattern) >= 3 /\ SubSeq(pattern, Len(pattern) - 2, Len(pattern)) = <<"/", "*", "*">>
       THEN rel_path = prefix \/ startswith(rel_path, prefix \o <<"/">>)
       ELSE fnmatch(rel_path, pattern)

matches_patterns_includes_first(rel_path, patterns, excludes) ==
    \/ \E i \in DOMAIN patterns : glob_match(rel_path, patterns[i])
    \/ ~\E i \in DOMAIN excludes : glob_match(rel_path, excludes[i])
\* matches_patterns, watcher.py:21-34 (with "/" as os.sep)
matches_patterns(rel_path, patterns, excludes) ==
    IF \E i \in DOMAIN excludes : glob_match(rel_path, excludes[i]) THEN FALSE
    ELSE \E i \in DOMAIN patterns : glob_match(rel_path, patterns[i])

\* matches_patterns(rel_path, patterns, excludes) called with the path of the
\* components `parts`
call_matches_patterns(t, parts, patterns, excludes) ==
    /\ th[t].pc = "idle"
    /\ th' = [th EXCEPT ![t].pc = "return", ![t].op = "matches_patterns",
                        ![t].arg = [parts |-> parts, patterns |-> patterns,
                                    excludes |-> excludes],
                        ![t].ret = matches_patterns(join(parts), patterns, excludes)]
    /\ UNCHANGED <<pool, bus, ms>>

\* Names of files and directories: "v" is a vendor directory, "xv" a name
\* that ends like it, "x.m" and "v.m" files with an extension.
Names == {<<"v">>, <<"x">>, <<"x", "v">>, <<"x", ".", "m">>, <<"v", ".", "m">>}
RelPaths == UNION {[1..n -> Names] : n \in 1..MaxDepth}

\* The pattern **/name/** and the pattern **/*.ext
AnyDepthDir(name) == <<"*", "*", "/">> \o name \o <<"/", "*", "*">>
AnyDepthExt(ext) == <<"*", "*", "/", "*", ".">> \o ext
IncludeLists ==
    {<<>>, <<AnyDepthExt(<<"m">>)>>, <<AnyDepthExt(<<"x">>), AnyDepthExt(<<"m">>)>>,
     <<<<"*">>>>}
ExcludeLists ==
    {<<>>, <<AnyDepthDir(<<"v">>)>>, <<AnyDepthDir(<<"x">>), AnyDepthDir(<<"v">>)>>,
     <<<<"v", "/", "*", "*">>>>}

NextMatch ==
    \/ \E parts \in RelPaths, patterns \in IncludeLists, excludes \in ExcludeLists :
          call_matches_patterns(Client, parts, patterns, excludes)
    \/ method_return(Client)

SpecMatch == Init /\ [][NextMatch]_vars

(***************************************************************************)
(* index_files: the full re-index that reconcile_project_async runs on a   *)
(* background thread with clear_first=True.                                *)
(***************************************************************************)
\* The thread that reconcile_project_async starts for index_files.
Indexer == <<"caller", 2>>

\* index_files(project), server.py:565-593, starts the thread; `before` keeps
\* the records of the store at that moment
index_files(t) ==
    /\ th[t].pc = "idle"
    /\ ms.started < MaxMutations
    /\ th' = [th EXCEPT ![t].pc = "clear_first", ![t].op = "index_files",
                        ![t].arg = [before |-> ms.mem]]
    /\ UNCHANGED <<pool, bus, ms>>

\* pool.py:119-120: store.delete_by_source("file:")
run_clear_first(t) ==
    /\ th[t].pc = "clear_first"
    /\ ms' = [ms EXCEPT !.mem = delete_by_source(@, <<"file:">>),
                        !.tag_cache = IF delete_by_source(ms.mem, <<"file:">>) # ms.mem
                                      THEN [built |-> FALSE, map |-> <<>>] ELSE @]
    /\ Goto(t, "watcher_reconcile")
    /\ UNCHANGED <<pool, bus>>

\* pool.py:121-123: watcher.reconcile() over the files as they are
run_watcher_reconcile(t, paths) ==
    LET w == reconcile(WalkFrom(ms.mem, ms.next_id, ms.files), paths)
        stored == w.next_id - ms.next_id
    IN /\ th[t].pc = "watcher_reconcile"
       /\ ms' = [ms EXCEPT
                   !.mem = w.mem, !.next_id = w.next_id,
                   !.tag_cache = IF stored > 0 THEN [built |-> FALSE, map |-> <<>>]
                                 ELSE @,
                   !.started = @ + 1, !.finished = @ + 1,
                   !.seen = ms.files]
       /\ th' = [th EXCEPT ![t].pc = "return", ![t].ret = w.total]
       /\ UNCHANGED <<pool, bus>>

\* What store_memory's caller may name as the source: nothing, or a file.
AgentSources == {<<>>, <<"file:", "f">>}

\* A client stores memories through store_memory while files are written and
\* the project is re-indexed in the background.
NextReindex ==
    \/ \E content \in {"c", "d"}, source \in AgentSources :
          store_memory_check(Client, content, <<"auth">>, source)
    \/ store_memory_store(Client)
    \/ store_memory_push(Client)
    \/ store_supersede(Client)
    \/ invalidate_tag_cache(Client)
    \/ method_return(Client)
    \/ \E path \in WatchedPaths, text \in {"c"} : write_file(path, text)
    \/ index_files(Indexer)
    \/ run_clear_first(Indexer)
    \/ \E paths \in WalkOrders : run_watcher_reconcile(Indexer, paths)
    \/ method_return(Indexer)

SpecReindex == Init /\ [][NextReindex]_vars

(***************************************************************************)
(* StorePool.start_watcher (as the on_complete callback of a background    *)
(* run, server.py:186-190) and StorePool.shutdown, pool.py:169-200.        *)
(***************************************************************************)
\* The thread that runs the atexit handler pool.shutdown (server.py:203).
ExitThread == <<"caller", 2>>

\* The projects that have an entry in _watchers.
watcher_keys == {p \in Projects : pool.watchers[p] # 0}

\* pool.py:130-131 with on_complete = start_watcher, and pool.py:171-177:
\* nothing to do for an unknown project or one that has a watcher
run_on_complete_start_watcher(w) ==
    /\ th[w].pc = "run_on_complete"
    /\ Goto(w, IF th[w].project \in pool.config_projects /\ th[w].project \notin watcher_keys
               THEN "sw_get_store" ELSE "run_finally")
    /\ UNCHANGED <<pool, bus>>

\* pool.py:178: get_store(project) of a store that exists, under the pool lock
start_watcher_get_store(w) ==
    /\ th[w].pc = "sw_get_store"
    /\ PoolLockFree
    /\ Goto(w, "sw_start")
    /\ UNCHANGED <<pool, bus>>

\* pool.py:180-181: FileWatcher(...).start(): a new observer runs
start_watcher_start(w) ==
    /\ th[w].pc = "sw_start"
    /\ pool' = [pool EXCEPT !.observers =
                    Append(@, [project |-> th[w].project, running |-> TRUE])]
    /\ th' = [th EXCEPT ![w].pc = "sw_insert", ![w].tmp = Len(pool.observers) + 1]
    /\ UNCHANGED bus

\* pool.py:182: self._watchers[project] = watcher; the callback returns
start_watcher_insert(w) ==
    /\ th[w].pc = "sw_insert"
    /\ pool' = [pool EXCEPT !.watchers[th[w].project] = th[w].tmp]
    /\ Goto(w, "run_finally")
    /\ UNCHANGED bus

StartWatcherStep(w) ==
    \/ run_on_complete_start_watcher(w)
    \/ start_watcher_get_store(w)
    \/ start_watcher_start(w)
    \/ start_watcher_insert(w)

\* shutdown(), pool.py:188-189: threads = list(self._reconcile_threads)
shutdown_snapshot(t) ==
    /\ th[t].pc = "idle"
    /\ PoolLockFree
    /\ th' = [th EXCEPT ![t].pc = "sd_join", ![t].op = "shutdown",
                        ![t].snapshot = pool.reconcile_threads]
    /\ UNCHANGED <<pool, bus>>

\* pool.py:190-191: thread.join(timeout=timeout) returns when the thread has
\* ended or the timeout has passed, whichever comes first
shutdown_join(t) ==
    /\ th[t].pc = "sd_join"
    /\ th' = [th EXCEPT ![t].snapshot = IF @ = <<>> THEN @ ELSE Tail(@),
                        ![t].pc = IF th[t].snapshot = <<>> THEN "sd_prune" ELSE @,
                        \* history: some joined thread was still running
                        ![t].running = @ \/ (th[t].snapshot # <<>>
                                             /\ is_alive(Head(th[t].snapshot)))]
    /\ UNCHANGED <<pool, bus>>

\* pool.py:192-195
shutdown_prune(t) ==
    /\ th[t].pc = "sd_prune"
    /\ PoolLockFree
    /\ pool' = [pool EXCEPT !.reconcile_threads = SelectSeq(@, is_alive)]
    /\ Goto(t, "sd_items")
    /\ UNCHANGED bus

\* pool.py:197: self._watchers.items(), a dict iterator: it remembers the
\* size of the dict and what it has not visited yet
shutdown_items(t) ==
    /\ th[t].pc = "sd_items"
    /\ th' = [th EXCEPT ![t].pc = "sd_next",
                        ![t].arg = [used |-> Cardinality(watcher_keys),
                                    visited |-> {}]]
    /\ UNCHANGED <<pool, bus>>

\* pool.py:197: the iterator's next(): RuntimeError when the size of the
\* dict has changed, otherwise the next entry, or the end of the loop
shutdown_next(t) ==
    /\ th[t].pc = "sd_next"
    /\ IF Cardinality(watcher_keys) # th[t].arg.used
       THEN th' = [th EXCEPT ![t].pc = "return", ![t].exc = "RuntimeError"]
       ELSE IF watcher_keys \subseteq th[t].arg.visited
       THEN Goto(t, "sd_clear")
       ELSE \E p \in watcher_keys \ th[t].arg.visited :
               th' = [th EXCEPT ![t].pc = "sd_stop", ![t].project = p,
                                ![t].tmp = pool.watchers[p],
                                ![t].arg.visited = @ \cup {p}]
    /\ UNCHANGED <<pool, bus>>

\* pool.py:198-199: watcher.stop()
shutdown_stop(t) ==
    /\ th[t].pc = "sd_stop"
    /\ pool' = [pool EXCEPT !.observers[th[t].tmp].running = FALSE]
    /\ Goto(t, "sd_next")
    /\ UNCHANGED bus

\* pool.py:200: self._watchers.clear(), and shutdown returns
shutdown_clear(t) ==
    /\ th[t].pc = "sd_clear"
    /\ pool' = [pool EXCEPT !.watchers = [p \in Projects |-> 0]]
    /\ Goto(t, "return")
    /\ UNCHANGED bus

\* The process exits once shutdown has returned: nothing runs afterwards.
Exited == th[ExitThread].pc = "return"

ShutdownStep(t) ==
    \/ shutdown_snapshot(t)
    \/ shutdown_join(t)
    \/ shutdown_prune(t)
    \/ shutdown_items(t)
    \/ shutdown_next(t)
    \/ shutdown_stop(t)
    \/ shutdown_clear(t)

\* Background runs that start the project's watcher when they complete, and
\* the shutdown of the pool at exit.
NextShutdown ==
    /\ UNCHANGED ms
    /\ ~Exited
    /\ \/ \E t \in RunCallers, p \in ConfiguredAtStart : reconcile_project_async_append(t, p)
       \/ \E t \in RunCallers : reconcile_project_async_start(t)
       \/ \E w \in Workers : WorkerStep(w)
       \/ \E w \in Workers : GetStoreStep(w)
       \/ \E w \in Workers : StartWatcherStep(w)
       \/ \E t \in Threads : get_index_lock(t)
       \/ ShutdownStep(ExitThread)

SpecShutdown == Init /\ [][NextShutdown]_vars

(***************************************************************************)
(* EventBus.recent, events.py:62-67.                                       *)
(***************************************************************************)
\* list.reverse()
reverse(items) == [i \in 1..Len(items) |-> items[Len(items) - i + 1]]

recent_oldest_first(history, limit) == Slice(history, 0, limit)
\* recent(limit), for limit >= 0: the history, newest first, cut at limit
recent(history, limit) == Slice(reverse(history), 0, limit)

\* recent(limit) as one call: the history is copied under the lock; `log`
\* keeps every event pushed up to that moment
call_recent(t, limit) ==
    /\ th[t].pc = "idle"
    /\ bus.lock = NoThread
    /\ th' = [th EXCEPT ![t].pc = "return", ![t].op = "recent",
                        ![t].arg = [limit |-> limit, log |-> bus.log],
                        ![t].ret = recent(bus.history, limit)]
    /\ UNCHANGED <<pool, bus, ms>>

\* The limits asked: none, fewer than the history holds, more.
RecentLimits == 0..(HistorySize + 1)

\* Threads push events and read the recent ones; nobody subscribes.
NextRecent ==
    \/ /\ UNCHANGED ms
       /\ \/ \E t \in Callers : push_locked(t)
          \/ \E t \in Callers : push_unlock(t)
          \/ \E t \in Callers : push_return(t)
    \/ \E t \in Callers, limit \in RecentLimits : call_recent(t, limit)
    \/ \E t \in Callers : method_return(t)

SpecRecent == Init /\ [][NextRecent]_vars

(***************************************************************************)
(* The live watcher: _IndexHandler's callbacks and index_file, step by     *)
(* step.  The handler's store is the MemoryStore `ms`; every path passes   *)
(* _should_index.                                                          *)
(***************************************************************************)
\* The files of this part: the path "f" and a path that begins with it.
HandlerPaths == {"f", "fx"}

InitHandler ==
    /\ InitPool
    /\ InitBus
    /\ ms = [mem |-> <<>>, next_id |-> 1,
             tag_cache |-> [built |-> FALSE, map |-> <<>>],
             now |-> [day |-> 1, sec |-> 0, micro |-> 0],
             started |-> 0, finished |-> 0,
             files |-> [p \in HandlerPaths |-> NoFile],
             seen |-> [p \in HandlerPaths |-> NeverSeen]]

\* on_modified / on_created call index_file(store, path), watcher.py:76-90;
\* index_file up to its delete_by_source, indexer.py:72-81: a missing or
\* blank file returns 0, a file that cannot be read raises and the handler
\* logs it, any other file is read with its modification time
index_file_read(t, path) ==
    LET file == ms.files[path]
        goes_on == file.kind = "file" /\ file.text # ""
    IN /\ th[t].pc = "idle"
       /\ ms.started < MaxMutations
       /\ th' = [th EXCEPT ![t].pc = IF goes_on THEN "ix_delete" ELSE "return",
                           ![t].op = "index_file",
                           ![t].arg = [path |-> path, file |-> file,
                                       before |-> ms.mem],
                           ![t].exc = IF file.kind = "locked" THEN "logged" ELSE "",
                           ![t].ret = 0]
       /\ ms' = [ms EXCEPT !.started = IF goes_on THEN @ + 1 ELSE @]
       /\ UNCHANGED <<pool, bus>>

\* store.delete_by_source(f"file:{file_path}"), indexer.py:84
index_file_delete(t) ==
    LET cleared == delete_by_source(ms.mem, file_prefix(th[t].arg.path))
    IN /\ th[t].pc = "ix_delete"
       /\ ms' = [ms EXCEPT !.mem = cleared,
                           !.tag_cache = IF cleared # ms.mem
                                         THEN [built |-> FALSE, map |-> <<>>]
                                         ELSE @]
       /\ Goto(t, "ix_store")
       /\ UNCHANGED <<pool, bus>>

\* the chunking and the loop of store.store calls, indexer.py:86-104, for a
\* file that makes one chunk
index_file_store(t) ==
    LET path == th[t].arg.path
        file == th[t].arg.file
        chunk == [Memory(ms.next_id, file.text, <<"indexed">>,
                         file_prefix(path) \o <<"|", 1>>, "file-indexed")
                     EXCEPT !.file_mtime = file.mtime]
    IN /\ th[t].pc = "ix_store"
       /\ ms' = [ms EXCEPT !.mem = insert(@, chunk), !.next_id = @ + 1,
                           !.tag_cache = [built |-> FALSE, map |-> <<>>],
                           !.finished = @ + 1]
       /\ th' = [th EXCEPT ![t].pc = "return", ![t].ret = 1]
       /\ UNCHANGED <<pool, bus>>

\* on_deleted, watcher.py:92-98, for a file that was there and is gone
on_deleted(t, path) ==
    LET cleared == delete_by_source(ms.mem, file_prefix(path))
    IN /\ th[t].pc = "idle"
       /\ ms.files[path].kind = "absent" /\ ms.files[path].mtime > 0
       /\ ms' = [ms EXCEPT !.mem = cleared,
                           !.tag_cache = IF cleared # ms.mem
                                         THEN [built |-> FALSE, map |-> <<>>]
                                         ELSE @]
       /\ th' = [th EXCEPT ![t].pc = "return", ![t].op = "on_deleted",
                           ![t].arg = [path |-> path, file |-> ms.files[path],
                                       before |-> ms.mem]]
       /\ UNCHANGED <<pool, bus>>

\* A file is deleted.
remove_file(path) ==
    /\ ms.files[path].kind = "file"
    /\ ms' = [ms EXCEPT !.files[path] = [NoFile EXCEPT !.mtime = ms.files[path].mtime]]
    /\ UNCHANGED <<th, pool, bus>>

IndexFileStep(t) ==
    \/ \E path \in DOMAIN ms.files : index_file_read(t, path)
    \/ index_file_delete(t)
    \/ index_file_store(t)

\* The orders in which rglob may yield the two paths.
HandlerWalkOrders == {<<"f", "fx">>, <<"fx", "f">>}

\* Files are written, emptied and deleted; one handler thread indexes them,
\* and the watcher reconciles now and then.
NextHandler ==
    \/ \E path \in HandlerPaths, text \in {"", "c"} : write_file(path, text)
    \/ \E path \in HandlerPaths : remove_file(path)
    \/ IndexFileStep(Client)
    \/ \E path \in HandlerPaths : on_deleted(Client, path)
    \/ \E paths \in HandlerWalkOrders : call_reconcile(Client, paths)
    \/ method_return(Client)

SpecHandler == InitHandler /\ [][NextHandler]_vars

(***************************************************************************)
(* index_file of one file by the reconciliation thread and by the          *)
(* observer thread of the live watcher.  The reconciliation thread holds   *)
(* the project's index lock (pool.py:109-112); the handler takes no lock   *)
(* (watcher.py:76-82), so the lock orders nothing between the two.         *)
(***************************************************************************)
\* reconcile's loop body for a path that rglob yields, watcher.py:115-131,
\* up to index_file's delete_by_source: an unchanged file is skipped
reconcile_visit(t, path) ==
    LET file == ms.files[path]
        stored_mtime == get_file_mtime(ms.mem, file_prefix(path))
        skipped == stored_mtime # 0 /\ stored_mtime = file.mtime
        goes_on == file.kind = "file" /\ file.text # "" /\ ~skipped
    IN /\ th[t].pc = "idle"
       /\ file.kind # "absent"
       /\ ms.started < MaxMutations
       /\ th' = [th EXCEPT ![t].pc = IF goes_on THEN "ix_delete" ELSE "return",
                           ![t].op = "reconcile_file",
                           ![t].arg = [path |-> path, file |-> file,
                                       before |-> ms.mem],
                           ![t].exc = IF file.kind = "locked" /\ ~skipped
                                      THEN "logged" ELSE "",
                           ![t].ret = 0]
       /\ ms' = [ms EXCEPT !.started = IF goes_on THEN @ + 1 ELSE @]
       /\ UNCHANGED <<pool, bus>>

\* The observer thread, and the thread that reconciles.
Observer == <<"caller", 1>>
Reconciler == <<"caller", 2>>

\* The file f is written while the reconciliation visits it and the
\* handler indexes it.
NextIndexRace ==
    \/ \E text \in {"c", "d"} : write_file("f", text)
    \/ reconcile_visit(Reconciler, "f")
    \/ index_file_read(Observer, "f")
    \/ \E t \in {Observer, Reconciler} : index_file_delete(t)
    \/ \E t \in {Observer, Reconciler} : index_file_store(t)
    \/ \E t \in {Observer, Reconciler} : method_return(t)

SpecIndexRace == InitHandler /\ [][NextIndexRace]_vars

(***************************************************************************)
(* store_memory called by several threads at once.                         *)
(***************************************************************************)
\* The steps of store_memory and of the store() it calls.
StoreMemoryStep(t) ==
    \/ \E content \in {"c", "d"} : store_memory_check(t, content, <<"auth">>, <<>>)
    \/ store_memory_store(t)
    \/ store_supersede(t)
    \/ invalidate_tag_cache(t)
    \/ store_memory_push(t)
    \/ method_return(t)

NextDedupRace == \E t \in Callers : StoreMemoryStep(t)

SpecDedupRace == Init /\ [][NextDedupRace]_vars

(***************************************************************************)
(* How many candidates query asks of the collection.                       *)
(***************************************************************************)
\* QdrantBackend.query, qdrant.py:137-139: the limit= of query_points
fetch_limit(limit, where) ==
    IF ~no_post_filters(qdrant_split_where(where).post) THEN limit * 3 ELSE limit

\* ChromaBackend.query, chromadb.py:55-64: the n_results= of collection.query;
\* an empty collection is not asked at all (0)
chroma_n_results(mem, limit, where) ==
    LET n == IF ~no_post_filters(split_where(where).post) THEN limit * 3 ELSE limit
    IN IF count(mem) = 0 THEN 0 ELSE n_results(n, count(mem))

\* whether the adapter applies a part of `where` after the fetch
has_post_filters(backend, where) ==
    IF backend = "qdrant" THEN ~no_post_filters(qdrant_split_where(where).post)
    ELSE ~no_post_filters(split_where(where).post)

\* backend.query(embedding, limit, where) of either adapter as one call;
\* `requested` is the number of candidates asked of the collection
call_query_fetch(t, backend, limit, where) ==
    LET qs == IF backend = "qdrant" THEN qdrant_query(ms.mem, embed("c"), limit, where)
              ELSE query(ms.mem, embed("c"), limit, where)
        requested == IF backend = "qdrant" THEN fetch_limit(limit, where)
                     ELSE chroma_n_results(ms.mem, limit, where)
    IN /\ th[t].pc = "idle"
       /\ \E result \in qs :
             th' = [th EXCEPT ![t].pc = "return", ![t].op = "query_fetch",
                              ![t].arg = [backend |-> backend, limit |-> limit,
                                          post |-> has_post_filters(backend, where),
                                          total |-> count(ms.mem)],
                              ![t].ret = [requested |-> requested, page |-> result]]
       /\ UNCHANGED <<pool, bus, ms>>

\* The limits asked, and the where-clauses: none, a tag filter, a date bound.
FetchLimits == {1, 2, BigLimit}
FetchWheres ==
    {NoWhere, build_where("", {"auth"}),
     build_where_dates(NoWhere, <<>>, <<Digit(2)>>)}

\* One client stores memories and queries either adapter.
NextFetch ==
    \/ \E content \in {"c", "d"}, tags \in TagLists : store_insert(Client, content, tags, NoId)
    \/ \E backend \in Backends, limit \in FetchLimits, where \in FetchWheres :
          call_query_fetch(Client, backend, limit, where)
    \/ store_supersede(Client)
    \/ invalidate_tag_cache(Client)
    \/ method_return(Client)

SpecFetch == Init /\ [][NextFetch]_vars

(***************************************************************************)
(* update and retag of agent memories and file chunks as time passes.      *)
(***************************************************************************)
\* The moments the clock of this part shows after the first.
FrameMoments == {[day |-> 1, sec |-> 1, micro |-> 0], [day |-> 2, sec |-> 0, micro |-> 1]}

\* One client stores a memory and a file chunk, then updates and retags
\* them while time passes.
NextFrame ==
    \/ tick_to(FrameMoments)
    \/ store_insert(Client, "c", <<"auth">>, NoId)
    \/ index_file(Client, "f", 1, "c")
    \/ \E id \in IdArgs \ {NoId},
          add_tags \in {Nothing, Some(<<"billing">>)},
          remove_tags \in {Nothing, Some(<<"auth">>)},
          set_tags \in {Nothing, Some(<<"login">>)} :
          call_retag(Client, id, add_tags, remove_tags, set_tags)
    \/ \E id \in IdArgs \ {NoId}, content \in {NoContent, Some("d")},
          tags \in {Nothing, Some(<<"billing">>)},
          source \in {Nothing, Some(<<"session">>)} :
          call_update(Client, id, content, tags, source)
    \/ store_supersede(Client)
    \/ invalidate_tag_cache(Client)
    \/ method_return(Client)

SpecFrame == Init /\ [][NextFrame]_vars

(***************************************************************************)
(* After shutdown().  shutdown is an atexit handler (server.py:203) and a  *)
(* public method: the daemon threads it did not wait for go on running     *)
(* when it has returned.                                                   *)
(***************************************************************************)
\* Background runs that start the project's watcher when they complete, the
\* shutdown of the pool, and what the threads do after it has returned.
NextAfterShutdown ==
    /\ UNCHANGED ms
    /\ \/ \E t \in RunCallers, p \in ConfiguredAtStart : reconcile_project_async_append(t, p)
       \/ \E t \in RunCallers : reconcile_project_async_start(t)
       \/ \E w \in Workers : WorkerStep(w)
       \/ \E w \in Workers : GetStoreStep(w)
       \/ \E w \in Workers : StartWatcherStep(w)
       \/ \E t \in Threads : get_index_lock(t)
       \/ ShutdownStep(ExitThread)

SpecAfterShutdown == Init /\ [][NextAfterShutdown]_vars

(***************************************************************************)
(* Claims.                                                                 *)
(***************************************************************************)

\* C1: concurrent get_store(p) calls for a project without a cached store all
\* return the same MemoryStore instance, and p's backend is created once.
C1_OneStorePerProject ==
    \A p \in Projects :
        /\ pool.created[p] <= 1
        /\ Cardinality(pool.returned[p]) <= 1
        /\ \A t \in Threads :
              (th[t].pc = "gs_save" /\ th[t].project = p)
                  => (th[t].store # NoStore /\ th[t].store = pool.stores[p])

\* C1 witness: one thread creates the store of the unknown project while the
\* other, asking for the same project, waits for the pool lock.
C1_Witness ==
    \E t1 \in Callers : \E t2 \in Callers \ {t1} :
        /\ th[t1].pc = "gs_create" /\ th[t1].project = "b"
        /\ th[t2].pc = "gs_acquire" /\ th[t2].project = "b"

\* C2 (as claimed): at most one reconciliation runs per project at any moment,
\* whether reconcile_project or reconcile_project_async started it.
C2_OneReconciliationPerProject ==
    \A p \in Projects :
        Cardinality({t \in Threads : /\ th[t].pc \in {"run_reconcile", "sync_reconcile"}
                                     /\ th[t].project = p}) <= 1

\* C3: when the background reconciliation raises, the worker catches it,
\* pushes exactly one index_failed event with the exception text, and gives
\* the index lock back: a finished worker never owns a lock.
C3_FailureReportedLockReleased ==
    \A w \in Workers :
        /\ (th[w].pc \in {"run_finally", "run_release", "done"} /\ th[w].exc = "boom")
              => /\ th[w].pushes = 1
                 /\ \E i \in DOMAIN bus.log :
                        bus.log[i] = Event("index_failed", th[w].project, "boom")
        /\ th[w].pc = "done" => \A p \in Projects : pool.index_lock_owner[p] # w

\* C3 witness: a worker ended in failure and an is_indexing probe of its
\* project that found the lock free is returning False.
C3_Witness ==
    \E w \in Workers, t \in Callers :
        /\ th[w].pc = "done" /\ th[w].exc = "boom"
        /\ th[t].pc = "ii_return" /\ th[t].project = th[w].project
        /\ ~th[t].result

\* C4: under fair scheduling every requested background run of a configured
\* project reaches its own watcher.reconcile() call, also when it had to wait
\* for a run in progress, and every run that started ends.
C4_EveryRequestedRunHappens ==
    \A w \in Workers :
        /\ (th[w].pc = "created" /\ th[w].project \in pool.config_projects)
              ~> (th[w].pc = "run_reconcile")
        /\ (th[w].pc = "run_reconcile") ~> (th[w].pc = "done")

\* C4 witness: a worker blocks in lock.acquire() while another worker of the
\* same project is inside its reconciliation.
C4_Witness ==
    \E w1 \in Workers : \E w2 \in Workers \ {w1} :
        /\ th[w1].pc = "run_wait"
        /\ th[w2].pc = "run_reconcile"
        /\ th[w1].project = th[w2].project
        /\ pool.index_lock_owner[th[w1].project] = w2

\* C5 (as claimed): is_indexing(p) returns True exactly when a reconciliation
\* of p is in progress at the moment of the probe.
C5_ProbeIsExact ==
    \A t \in Callers : th[t].pc = "ii_return" => (th[t].result = th[t].running)

\* The pushes that have returned: no thread holds their event any more.
PushFinished(e) == \A t \in Threads : th[t].event # e

\* C6: push(e) never waits for a subscriber: each put_nowait call either adds
\* e once, or drops it and then the queue was full; a finished push has made
\* exactly one call for each queue subscribed at its snapshot and none for any
\* other queue; e is in the history log whatever the queues did; and no
\* thread holds the bus lock while it enqueues.
C6_PushFansOutOnce ==
    /\ \A a \in bus.puts :
          /\ a.n = 1
          /\ a.added = (IF a.before < QueueMaxsize THEN 1 ELSE 0)
          /\ \E i \in DOMAIN bus.log : bus.log[i] = a.e /\ a.q \in bus.snaps[i]
    /\ \A i \in DOMAIN bus.log :
          PushFinished(bus.log[i]) =>
              \A qid \in bus.snaps[i] :
                  \E a \in bus.puts : a.q = qid /\ a.e = bus.log[i]
    /\ \A i \in DOMAIN bus.log : Count(bus.log[i], bus.log) = 1
    /\ bus.history # <<>> => bus.history[Len(bus.history)] = bus.log[Len(bus.log)]
    /\ \A t \in Threads : th[t].pc = "push_put" => bus.lock # t

\* C6 witness: one event was dropped for a subscriber whose queue was full and
\* delivered to another subscriber, and its push has returned.
C6_Witness ==
    \E a1 \in bus.puts, a2 \in bus.puts :
        /\ a1.e = a2.e /\ a1.q # a2.q
        /\ a1.added = 0 /\ a1.before = QueueMaxsize
        /\ a2.added = 1
        /\ PushFinished(a1.e)

\* C7: a fuzzy tag lookup that begins when every mutating call has returned,
\* and during which no mutating call begins, is served a tag map whose tags
\* are exactly the tags of the store's current vocabulary.
C7_LookupAfterMutationIsFresh ==
    \A t \in Callers :
        (/\ th[t].pc = "return" /\ th[t].op = "expand_tags"
         /\ th[t].arg.clean
         /\ th[t].arg.epoch = ms.started)
            => DOMAIN th[t].tmp = DOMAIN list_topics(ms.mem, FALSE)

\* The ids of a result list.
Ids(results) == {results[i].id : i \in DOMAIN results}

\* The records of the collection that a newer memory supersedes.
Superseded == {ms.mem[i] : i \in {j \in DOMAIN ms.mem : ms.mem[j].superseded_by # NoId}}
NotSuperseded == {ms.mem[i] : i \in {j \in DOMAIN ms.mem : ms.mem[j].superseded_by = NoId}}

C10_SameContentStoredOnce ==
    LET c == th[Client] IN
    (c.pc = "return" /\ c.op = "store_memory" /\ c.ret # NoId) =>
        \A i \in DOMAIN ms.mem :
            (ms.mem[i].id # c.ret /\ ms.mem[i].chunk_type = "agent-memory") =>
                ms.mem[i].text # c.arg.content

\* C11: in a returned store_batch, an item is skipped exactly when it carries
\* no supersedes and some agent-memory stored before the batch, or some item
\* accepted earlier in the batch, matches its content with a score of 0.95
\* or more; a skipped item leaves no record, a stored item is one new
\* agent-memory with its content, and the counts are those of the outcomes.
C11_BatchSkipsDuplicates ==
    LET c == th[Client]
        items == c.arg.items
        out == c.ret.items
        before == {c.tmp[i].text : i \in {j \in DOMAIN c.tmp :
                                     c.tmp[j].chunk_type = "agent-memory"}}
        accepted(i) == {items[j].content : j \in {k \in 1..(i-1) : out[k].status = "stored"}}
        dup(i) == \E text \in before \cup accepted(i) :
                     100 - distance(embed(items[i].content), embed(text)) >= 95
        stored == {i \in DOMAIN out : out[i].status = "stored"}
    IN (c.pc = "return" /\ c.op = "store_batch") =>
        /\ Len(out) = Len(items)
        /\ \A i \in DOMAIN items :
              /\ out[i].status = "skipped" <=> (items[i].supersedes = NoId /\ dup(i))
              /\ out[i].status = "stored" <=> ~(items[i].supersedes = NoId /\ dup(i))
              /\ out[i].status = "stored" =>
                    /\ Cardinality({j \in DOMAIN ms.mem : ms.mem[j].id = out[i].mem_id}) = 1
                    /\ \A j \in DOMAIN ms.mem : ms.mem[j].id = out[i].mem_id =>
                          /\ ms.mem[j].text = items[i].content
                          /\ ms.mem[j].chunk_type = "agent-memory"
                    /\ \A j \in DOMAIN c.tmp : c.tmp[j].id # out[i].mem_id
        /\ Len(ms.mem) = Len(c.tmp) + Cardinality(stored)
        /\ c.ret.stored_count = Cardinality(stored)
        /\ c.ret.skipped_count = Len(items) - Cardinality(stored)

\* C11 witness: a returned batch in which one item was skipped as the
\* duplicate of an item accepted earlier in the same batch, and an item that
\* carries supersedes was stored although its content was already stored.
C11_Witness ==
    LET c == th[Client] IN
    /\ c.pc = "return" /\ c.op = "store_batch"
    /\ \E i \in DOMAIN c.arg.items, j \in DOMAIN c.arg.items :
          /\ j < i
          /\ c.ret.items[j].status = "stored" /\ c.ret.items[i].status = "skipped"
          /\ c.arg.items[i].content = c.arg.items[j].content
          /\ \A k \in DOMAIN c.tmp : c.tmp[k].text # c.arg.items[i].content
    /\ \E i \in DOMAIN c.arg.items :
          /\ c.arg.items[i].supersedes # NoId
          /\ c.ret.items[i].status = "stored"
          /\ \E k \in DOMAIN c.tmp : c.tmp[k].text = c.arg.items[i].content

C13_BrowsePagesPartition ==
    LET c == th[Client]
        a == c.arg
        matching == {r \in Superseded \cup NotSuperseded :
                        /\ a.chunk_type # "" => r.chunk_type = a.chunk_type
                        /\ a.tags # {} => Range(r.tags) \cap a.tags # {}
                        /\ ~a.include_superseded => r.superseded_by = NoId}
    IN (c.pc = "return" /\ c.op = "browse_pages") =>
        /\ \A k \in DOMAIN c.ret :
              /\ Len(c.ret[k][1]) <= a.limit
              /\ c.ret[k][2] = Cardinality(matching)
              /\ Cardinality(Ids(c.ret[k][1])) = Len(c.ret[k][1])
        /\ \A k \in DOMAIN c.ret, l \in DOMAIN c.ret :
              k # l => Ids(c.ret[k][1]) \cap Ids(c.ret[l][1]) = {}
        /\ UNION {Ids(c.ret[k][1]) : k \in DOMAIN c.ret} = {r.id : r \in matching}

\* C13 witness: a browse with a post-filter (tags) whose matching records
\* spread over more than one page, while some record does not match.
C13_Witness ==
    LET c == th[Client] IN
    /\ c.pc = "return" /\ c.op = "browse_pages"
    /\ c.arg.tags # {} /\ c.arg.backend = "chromadb"
    /\ Len(c.ret) >= 2 /\ c.ret[1][1] # <<>> /\ c.ret[2][1] # <<>>
    /\ c.ret[1][2] < count(ms.mem)

\* The day on which a record was created, read from its created_at.
CreatedOn(r, date) == r.created_at[1] = date[1]

\* C14: a search with only the date-only bound before=D, or only the
\* date-only bound after=D, and a limit that leaves room for every record,
\* returns every memory created on day D, whatever its time of day.
C14_DateOnlyBoundIncludesTheDay ==
    LET c == th[Client]
        bound == IF c.arg.before # <<>> THEN c.arg.before ELSE c.arg.after
    IN (/\ c.pc = "return" /\ c.op = "search_dates"
        /\ (c.arg.before = <<>>) # (c.arg.after = <<>>)
        /\ bound \in Dates)
       => \A i \in DOMAIN ms.mem :
             CreatedOn(ms.mem[i], bound) => ms.mem[i].id \in Ids(c.ret)

\* The record read by get_by_ids with the id a finished store call returned.
ReadBack(c) == get_by_ids(ms.mem, {c.ret})

\* `out` is `tags` lowercased, without later duplicates, in the same order.
LowercasedDeduplicated(out, tags) ==
    LET l == [i \in DOMAIN tags |-> lower(tags[i])]
        at(x) == CHOOSE i \in DOMAIN l : l[i] = x /\ \A j \in 1..(i - 1) : l[j] # x
    IN /\ Range(out) = Range(l)
       /\ \A i \in DOMAIN out, j \in DOMAIN out :
             i < j => out[i] # out[j] /\ at(out[i]) < at(out[j])

C16_InvalidRequestFailsFast ==
    LET c == th[Client]
        a == c.arg
        bad_date(v) == v # <<>> /\ v \notin Dates \cup DateTimes
        bad_search == c.op = "search_dates" /\ (bad_date(a.after) \/ bad_date(a.before))
        bad_retag ==
            /\ c.op = "retag"
            /\ \/ a.set_tags.some /\ (a.add_tags.v # <<>> \/ a.remove_tags.v # <<>>)
               \/ ~a.set_tags.some /\ a.add_tags.v = <<>> /\ a.remove_tags.v = <<>>
        calls == IF c.op = "retag" THEN a.backend_calls ELSE c.tmp.backend_calls
    IN (c.pc = "return" /\ (bad_search \/ bad_retag)) =>
          /\ c.exc = "ValueError"
          /\ calls = 0
          /\ ms.mem = c.snapshot

\* C16 witness: a retag with no tag option, of a memory that exists, has
\* failed.
C16_Witness ==
    LET c == th[Client] IN
    /\ c.pc = "return" /\ c.op = "retag" /\ c.exc = "ValueError"
    /\ c.ret = "Provide at least one"
    /\ ms.mem # <<>>
    /\ c.arg.mem_id \in Ids(ms.mem)

\* The options of a finished retag call are valid.
ValidRetag(a) ==
    /\ ~(a.set_tags.some /\ (a.add_tags.v # <<>> \/ a.remove_tags.v # <<>>))
    /\ a.set_tags.some \/ a.add_tags.v # <<>> \/ a.remove_tags.v # <<>>

\* C17: update, and retag with valid options, of an id that is not in the
\* store raise the not-found ValueError; no record is created and none is
\* changed.
C17_UnknownIdIsNotFound ==
    LET c == th[Client] IN
    (/\ c.pc \in {"return", "invalidate"}
     /\ c.op = "update" \/ (c.op = "retag" /\ ValidRetag(c.arg))
     /\ c.arg.mem_id \notin Ids(c.snapshot))
    => /\ c.pc = "return"
       /\ c.exc = "ValueError" /\ c.ret = "not found"
       /\ ms.mem = c.snapshot

\* C17 witness: an update of an id that was deleted has failed while other
\* memories are in the store.
C17_Witness ==
    LET c == th[Client] IN
    /\ c.pc = "return" /\ c.op = "update" /\ c.exc = "ValueError"
    /\ c.arg.mem_id \in 1..(ms.next_id - 1)
    /\ c.arg.tags.some
    /\ ms.mem # <<>>

\* The first occurrences of the elements of l, in order.
RECURSIVE FirstOccurrences(_)
FirstOccurrences(l) ==
    IF l = <<>> THEN <<>>
    ELSE LET front == FirstOccurrences(SubSeq(l, 1, Len(l) - 1))
             last == l[Len(l)]
         IN IF \E i \in DOMAIN front : front[i] = last THEN front
            ELSE Append(front, last)

\* C18: a retag that succeeds returns the tags it has written to the record,
\* without a repetition: with set_tags, set_tags without its later
\* duplicates; otherwise the current tags followed by the add_tags not yet
\* present, without the tags listed in remove_tags.
C18_RetagResult ==
    LET c == th[Client]
        a == c.arg
        before == get(c.snapshot, {a.mem_id})[1].tags
        expected ==
            IF a.set_tags.some THEN FirstOccurrences(a.set_tags.v)
            ELSE SelectSeq(FirstOccurrences(before \o a.add_tags.v),
                           LAMBDA x : x \notin Range(a.remove_tags.v))
    IN (c.pc = "return" /\ c.op = "retag" /\ c.exc = "") =>
          /\ c.ret = expected
          /\ get(ms.mem, {a.mem_id})[1].tags = c.ret
          /\ \A i \in DOMAIN c.ret, j \in DOMAIN c.ret : i # j => c.ret[i] # c.ret[j]

\* C18 witness: a retag in delta mode of a memory whose tags repeat, with a
\* repeated add_tags and a remove_tags, has returned.
C18_Witness ==
    LET c == th[Client] IN
    /\ c.pc = "return" /\ c.op = "retag" /\ c.exc = ""
    /\ ~c.arg.set_tags.some
    /\ c.arg.add_tags.v = <<"billing", "auth", "billing">>
    /\ c.arg.remove_tags.v = <<"auth">>
    /\ get(c.snapshot, {c.arg.mem_id})[1].tags = <<"auth", "auth", "billing">>
    /\ c.ret = <<"billing">>

\* The moment a timestamp names; day 0 when it names none.
MomentOf(s) ==
    IF Len(s) < 4 THEN [day |-> 0, sec |-> 0, micro |-> 0]
    ELSE [day |-> s[1] - Digit(0), sec |-> s[3] - Digit(0),
          micro |-> IF s[4] = CharDot THEN s[5] - Digit(0) ELSE 0]

\* The timestamp is more than `days` days before now.
OlderThan(s, days) ==
    s # <<>> /\ Later([MomentOf(s) EXCEPT !.day = @ + days], ms.now)

\* C19: find_stale(max_age_days) names only agent-memory records that are
\* not superseded; stale_ids holds only records with a last_accessed_at
\* older than max_age_days, never_accessed_ids only records without
\* last_accessed_at whose created_at is older than max_age_days; no id is
\* in both lists.
C19_FindStaleReportsOnlyOldAgentMemories ==
    LET c == th[Client]
        rec(id) == get(ms.mem, {id})[1]
        stale == Range(c.ret.stale_ids)
        never == Range(c.ret.never_accessed_ids)
    IN (c.pc = "return" /\ c.op = "find_stale") =>
          /\ stale \cap never = {}
          /\ \A id \in stale \cup never :
                /\ id \in Ids(ms.mem)
                /\ rec(id).chunk_type = "agent-memory"
                /\ rec(id).superseded_by = NoId
          /\ \A id \in stale :
                OlderThan(rec(id).last_accessed_at, c.arg.max_age_days)
          /\ \A id \in never :
                /\ rec(id).last_accessed_at = <<>>
                /\ OlderThan(rec(id).created_at, c.arg.max_age_days)

\* C19 witness: find_stale has reported a stale memory and a never accessed
\* one while the store also holds a superseded memory older than
\* max_age_days.
C19_Witness ==
    LET c == th[Client] IN
    /\ c.pc = "return" /\ c.op = "find_stale"
    /\ c.ret.stale_ids # <<>> /\ c.ret.never_accessed_ids # <<>>
    /\ \E i \in DOMAIN ms.mem :
          /\ ms.mem[i].superseded_by # NoId
          /\ OlderThan(ms.mem[i].created_at, c.arg.max_age_days)

ExpandedFromVocabulary(mem, filter_tags) ==
    filter_tags \cup
        {known \in DOMAIN list_topics(mem, FALSE) :
            \E f \in filter_tags :
                100 - distance(embed(f), embed(known)) >= FUZZY_TAG_THRESHOLD}

\* C21: a tag filter given while no mutating call is in flight, and expanded
\* before another one begins, is expanded to the filter tags plus every tag
\* of the project's current vocabulary that scores at least 0.72 against
\* some filter tag, and to no other tag.
C21_FilterExpandsOverCurrentVocabulary ==
    \A t \in Callers :
        (/\ th[t].pc = "return" /\ th[t].op = "expand_tags"
         /\ th[t].arg.clean
         /\ th[t].arg.epoch = ms.started)
            => th[t].ret = ExpandedFromVocabulary(ms.mem, Range(th[t].arg.filter_tags))

Clean(tags) ==
    /\ \A i, j \in DOMAIN tags : tags[i] = tags[j] => i = j
    /\ \A i \in DOMAIN tags : tags[i] # ""

\* Every mutating call so far was made by a tool of the server: each one
\* pushed its event, a direct call of a MemoryStore method pushes none.
OnlyToolCalls == th[Client].pc = "idle" /\ Len(bus.log) = ms.started

C24_SecondReconcileIndexesNothing ==
    LET c == th[Client] IN
    (c.pc = "return" /\ c.op = "reconcile" /\ c.arg.unchanged)
        => c.ret = 0 /\ ms.mem = c.snapshot

\* The paths whose file had no chunk with its modification time when the
\* walk began: the new and the changed files.
NewOrChanged(files, mem) ==
    {p \in WatchedPaths :
        /\ files[p].kind # "absent"
        /\ ~\E i \in DOMAIN mem : /\ startswith(mem[i].source, <<"file:", p>>)
                                  /\ mem[i].file_mtime = files[p].mtime}

\* C25: reconcile() returns normally whatever file cannot be read; every
\* failure is logged, every new or changed file that can be read is counted
\* and, unless it is blank, has its chunk in the store with its text and its
\* modification time.
C25_FailingFileDoesNotAbortTheWalk ==
    LET c == th[Client]
        files == c.arg.files
        todo == NewOrChanged(files, c.snapshot)
        failing == {p \in todo : files[p].kind = "locked"}
    IN (c.pc = "return" /\ c.op = "reconcile") =>
          /\ c.exc = ""
          /\ c.arg.logged = Cardinality(failing)
          /\ c.ret = Cardinality(todo \ failing)
          /\ \A p \in todo \ failing :
                files[p].text # "" =>
                    \E i \in DOMAIN ms.mem :
                        /\ ms.mem[i].source = <<"file:", p, "|", 1>>
                        /\ ms.mem[i].text = files[p].text
                        /\ ms.mem[i].file_mtime = files[p].mtime

\* The first file of a walk could not be read, and the second, a new file,
\* was indexed and counted.
C25_Witness ==
    LET c == th[Client] IN
    /\ c.pc = "return" /\ c.op = "reconcile"
    /\ c.arg.files[c.arg.paths[1]].kind = "locked"
    /\ c.arg.logged = 1 /\ c.ret = 1
    /\ \E i \in DOMAIN ms.mem :
          /\ ms.mem[i].source = <<"file:", c.arg.paths[2], "|", 1>>
          /\ ms.mem[i].id \notin {c.snapshot[j].id : j \in DOMAIN c.snapshot}

\* The path of the components `parts` lies under a directory called `name`.
UnderDirectory(parts, name) == \E i \in 1..(Len(parts) - 1) : parts[i] = name

\* C26: a path under a directory named by an exclude **/name/** is rejected,
\* at the watch root and at any depth, whatever the include patterns; and a
\* path that no exclude matches is accepted iff some include matches it.
C26_ExcludesTakePrecedence ==
    LET c == th[Client]
        rel_path == join(c.arg.parts)
        excluded == \E i \in DOMAIN c.arg.excludes : glob_match(rel_path, c.arg.excludes[i])
        included == \E i \in DOMAIN c.arg.patterns : glob_match(rel_path, c.arg.patterns[i])
    IN (c.pc = "return" /\ c.op = "matches_patterns") =>
          /\ (\E i \in DOMAIN c.arg.excludes, name \in Names :
                 /\ c.arg.excludes[i] = AnyDepthDir(name)
                 /\ UnderDirectory(c.arg.parts, name)) => c.ret = FALSE
          /\ ~excluded => (c.ret <=> included)

\* A file that an include pattern matches was rejected because it lies in a
\* nested vendor directory.
C26_Witness ==
    LET c == th[Client] IN
    /\ c.pc = "return" /\ c.op = "matches_patterns"
    /\ c.arg.parts = <<<<"x">>, <<"v">>, <<"x", ".", "m">>>>
    /\ c.arg.patterns = <<AnyDepthExt(<<"m">>)>>
    /\ c.arg.excludes = <<AnyDepthDir(<<"v">>)>>
    /\ c.ret = FALSE

\* C27: when a full re-index has run, every agent-memory record that was in
\* the store when it began is still there, unchanged.
C27_ReindexKeepsAgentMemories ==
    LET x == th[Indexer] IN
    (x.pc = "return" /\ x.op = "index_files") =>
        \A i \in DOMAIN x.arg.before :
            x.arg.before[i].chunk_type = "agent-memory"
                => \E j \in DOMAIN ms.mem : ms.mem[j] = x.arg.before[i]

\* C28: when shutdown() has returned, every watcher that had been started is
\* stopped and the pool holds no watcher.
C28_ShutdownStopsEveryWatcher ==
    (th[ExitThread].pc = "return" /\ th[ExitThread].op = "shutdown"
        /\ th[ExitThread].exc = "")
        => /\ \A i \in DOMAIN pool.observers : ~pool.observers[i].running
           /\ watcher_keys = {}

\* C29: recent(limit) returns the min(limit, HistorySize, number of pushes)
\* events pushed last, the newest first.
C29_RecentReturnsNewestFirst ==
    \A t \in Callers :
        (th[t].pc = "return" /\ th[t].op = "recent") =>
            LET log == th[t].arg.log
                k == Min(th[t].arg.limit, Min(HistorySize, Len(log)))
            IN /\ Len(th[t].ret) = k
               /\ \A i \in 1..k : th[t].ret[i] = log[Len(log) - i + 1]

\* More events were pushed than the history holds, and recent was asked for
\* more than that: it returned the last HistorySize events, newest first.
C29_Witness ==
    \E t \in Callers :
        /\ th[t].pc = "return" /\ th[t].op = "recent"
        /\ Len(th[t].arg.log) > HistorySize
        /\ th[t].arg.limit > HistorySize
        /\ Len(th[t].ret) = HistorySize
        /\ th[t].ret[1] = th[t].arg.log[Len(th[t].arg.log)]

\* C30: no backend is created by a thread that holds the pool lock: every
\* step that creates a backend happens with the pool lock free.
C30_NoBackendCreatedUnderPoolLock ==
    [][\A p \in Projects :
          pool'.created[p] # pool.created[p] => pool.lock = NoThread]_vars

\* The records of mem whose source is the file at path.
ChunksOf(mem, path) ==
    SelectSeq(mem, LAMBDA r : startswith(r.source, file_prefix(path) \o <<"|">>))

\* C31: when index_file(path) has returned, the chunks stored for the file
\* are exactly the chunks of the content it found: one chunk with the text
\* of a file that has text, none for a blank or missing file.
C31_IndexFileLeavesOnlyCurrentChunks ==
    (th[Client].pc = "return" /\ th[Client].op = "index_file"
                              /\ th[Client].exc = "") =>
        LET file == th[Client].arg.file
            chunks == ChunksOf(ms.mem, th[Client].arg.path)
        IN IF file.kind = "file" /\ file.text # ""
           THEN Len(chunks) = 1 /\ chunks[1].text = file.text
           ELSE chunks = <<>>

\* C38: when index_file(path) or on_deleted for path has returned, every
\* record that was in the store before the call and is not a chunk of that
\* file is still in the store, unchanged.
C38_OnlyTheFilesChunksAreReplaced ==
    (th[Client].pc = "return" /\ th[Client].op \in {"index_file", "on_deleted"}) =>
        LET before == th[Client].arg.before
            own == Range(ChunksOf(before, th[Client].arg.path))
        IN \A r \in Range(before) : r \notin own => r \in Range(ms.mem)

\* C40: when reconcile() has returned, every file-indexed record in the
\* store is a chunk of a file that existed when reconcile walked the watch
\* path.
C40_ReconcileLeavesNoChunkOfAMissingFile ==
    (th[Client].pc = "return" /\ th[Client].op = "reconcile") =>
        \A r \in Range(ms.mem) :
            r.chunk_type = "file-indexed" =>
                \E path \in DOMAIN th[Client].arg.files :
                    /\ th[Client].arg.files[path].kind # "absent"
                    /\ startswith(r.source, file_prefix(path) \o <<"|">>)

\* C36: once the reconciliation and the handler have both finished with the
\* file, the store holds one set of chunks for it: at most one record per
\* chunk of the file.
C36_OneSetOfChunksPerFile ==
    (\A t \in {Observer, Reconciler} : th[t].pc \in {"idle", "return"}) =>
        Len(ChunksOf(ms.mem, "f")) <= 1

\* C37: store_memory calls that overlap store at most one record of a
\* given content.
C37_OverlappingCallsStoreOneRecord ==
    \A content \in {"c", "d"} :
        Cardinality({i \in DOMAIN ms.mem :
                        /\ ms.mem[i].text = content
                        /\ ms.mem[i].chunk_type = "agent-memory"}) <= 1

\* C32: with a post-filter, a query that asks the collection asks for 3
\* times limit candidates, cut at a ceiling that is the same for every
\* limit; the ceiling is below 3 * BigLimit, and Chroma never asks for more
\* than the collection holds.
C32_OverfetchIsCappedAtACeiling ==
    (th[Client].pc = "return" /\ th[Client].op = "query_fetch"
        /\ th[Client].arg.post /\ th[Client].ret.requested # 0) =>
        \E ceiling \in 1..(3 * BigLimit - 1) :
            LET capped == Min(3 * th[Client].arg.limit, ceiling)
            IN th[Client].ret.requested =
                  IF th[Client].arg.backend = "qdrant" THEN capped
                  ELSE n_results(capped, th[Client].arg.total)

\* The step in which an update or a retag of Client writes to the store.
Mutates(op) ==
    /\ th[Client].pc = "idle"
    /\ th'[Client].pc = "invalidate" /\ th'[Client].op = op

\* C33: a step of update or retag that succeeds leaves the record's id,
\* chunk_type and created_at as they were and sets updated_at to the time
\* of the call; update leaves content, tags and source as they were when
\* the argument is not given, retag leaves content and source as they were.
C33_UpdateAndRetagKeepTheRest ==
    [][(Mutates("update") \/ Mutates("retag")) =>
          LET a == th'[Client].arg
              old == get(ms.mem, {a.mem_id})[1]
              new == get(ms'.mem, {a.mem_id})[1]
          IN /\ Len(get(ms'.mem, {a.mem_id})) = 1
             /\ new.id = old.id
             /\ new.chunk_type = old.chunk_type
             /\ new.created_at = old.created_at
             /\ new.updated_at = isoformat(ms.now)
             /\ Mutates("update") =>
                   /\ ~a.content.some => new.text = old.text
                   /\ ~a.tags.some => new.tags = old.tags
                   /\ ~a.source.some => new.source = old.source
             /\ Mutates("retag") =>
                   /\ new.text = old.text
                   /\ new.source = old.source]_vars

\* C33 witness: an update that gives tags only has changed a file chunk
\* stored at an earlier time: the text, the source, the chunk_type and
\* created_at are as before, the tags are new, updated_at is later than
\* created_at.
C33_Witness ==
    LET c == th[Client]
        old == get(c.snapshot, {c.arg.mem_id})[1]
        new == get(ms.mem, {c.arg.mem_id})[1]
    IN /\ c.pc = "invalidate" /\ c.op = "update" /\ c.exc = ""
       /\ ~c.arg.content.some /\ c.arg.tags.some /\ ~c.arg.source.some
       /\ old.chunk_type = "file-indexed" /\ new.chunk_type = "file-indexed"
       /\ new.text = "c" /\ new.source = old.source /\ new.source # <<>>
       /\ old.tags = <<"auth">> /\ new.tags = <<"billing">>
       /\ new.created_at = old.created_at
       /\ str_less(new.created_at, new.updated_at)

\* C34: a reconciliation thread that was created and has not terminated is
\* in _reconcile_threads.
C34_LiveThreadsAreTracked ==
    \A w \in Workers :
        th[w].pc \notin {"unborn", "done"} => w \in Range(pool.reconcile_threads)

\* C35: once shutdown() has returned, no step starts a file watcher.
C35_NoWatcherStartsAfterShutdown ==
    [][(Exited /\ th[ExitThread].exc = "") =>
          Len(pool'.observers) = Len(pool.observers)]_vars

\* The place of event e in the order of the appends to the history.
AppendedAt(e) == CHOOSE k \in DOMAIN bus.log : bus.log[k] = e

\* C39: the events waiting in a subscriber's queue are in the order in
\* which they were appended to the history.
C39_QueuesFollowHistoryOrder ==
    \A qid \in DOMAIN bus.q :
        \A i, j \in DOMAIN bus.q[qid] :
            i < j => AppendedAt(bus.q[qid][i]) < AppendedAt(bus.q[qid][j])

=============================================================================
